---------------------------- MODULE Spec2Model ----------------------------
(***************************************************************************)
(* Multi-provider file storage with per-user rolling quota.                *)
(*                                                                         *)
(*   StorageService  (storage.service.ts, two revisions in the tree)       *)
(*   AwsS3Provider / GcpStorageProvider  (the two provider adapters)       *)
(*   FilesService    (files.service.ts: upload / get / download / delete)  *)
(*   UsersService    (users.service.ts: quota check, usage ledger)         *)
(*                                                                         *)
(* Every request runs on a task.  A task walks through the awaits of the   *)
(* handler it executes; one action is one stretch of code between awaits.  *)
(***************************************************************************)
EXTENDS Integers, Sequences, FiniteSets, TLC

VARIABLES
    objects,    \* provider name -> set of keys it holds
    task,       \* task id -> the request it runs and where it stands
    files,      \* the File table: set of records
    nextId,     \* ids and uuids handed out so far (UsersService called alone:
                \* the usage updates made so far)
    users,      \* the User table: user id -> row
    history,    \* the UsageHistory table: set of rows
    now,        \* the wall clock
    unlinked    \* ids of File rows whose object a deleteFile request removed

vars == <<objects, task, files, nextId, users, history, now, unlinked>>

-----------------------------------------------------------------------------
(* Bounds of the model *)

MaxFiles == 2
MaxSize == 3
MaxCapacity == 2
MaxCalls == 3

\* the requests that may be in flight at once
Tasks == {1, 2, 3}

\* two requests in flight at once
TwoTasks == {1, 2}

\* requests served one at a time
OneTask == {1}
Keys == 1..MaxFiles
Sizes == 1..MaxSize

-----------------------------------------------------------------------------
(* Providers *)

\* this.providers = [awsProvider, gcpProvider]
providers == <<"aws", "gcp">>

ProviderNames == {providers[i] : i \in 1..Len(providers)}

\* Provider strings a caller may pass to StorageService: the two tags the
\* adapters write, a differently-cased spelling, and a name no adapter has.
ProviderArgs == {"aws", "gcp", "AWS", "azure"}

\* String.prototype.toLowerCase on the strings above
toLowerCase(s) == IF s = "AWS" THEN "aws" ELSE s

\* switch (name.toLowerCase()) { case 'aws' ... case 'gcp' ... default: undefined }
getProviderByName(name) ==
    LET l == toLowerCase(name)
    IN  IF l = "aws" THEN "aws" ELSE IF l = "gcp" THEN "gcp" ELSE "undefined"

\* instanceof AwsS3Provider -> 'aws', instanceof GcpStorageProvider -> 'gcp'
getProviderName(p) ==
    IF p = "aws" THEN "aws" ELSE IF p = "gcp" THEN "gcp" ELSE "unknown"

\* The remote backends are outside the program: whether a backend answers a
\* call is drawn anew at every call (it may change between a probe and the
\* call that follows it).
Answers == BOOLEAN

\* isAvailable(): HeadBucket / bucket.exists(); any fault is caught -> false
isAvailable(answered) == answered

\* provider.uploadFile: resolves (object stored) when the backend answers,
\* rejects otherwise.  The result carries the adapter's own tag.
ProviderUploadOk(answered) == answered

ProviderUploadResult(p, key) == [provider |-> getProviderName(p), key |-> key]

\* provider.downloadFile: GetObject / getMetadata reject when the backend
\* does not answer or the key is absent.
ProviderDownloadOk(p, key, answered) == answered /\ key \in objects[p]

\* provider.deleteFile: both adapters catch every error and return false.
\* S3 DeleteObject succeeds on an absent key; GCS file.delete() rejects (404).
ProviderDeleteReturns(p, key, answered) ==
    IF ~answered THEN FALSE
    ELSE IF p = "aws" THEN TRUE
    ELSE key \in objects[p]

ProviderDeleteObjects(p, key, answered) ==
    IF answered THEN [objects EXCEPT ![p] = @ \ {key}] ELSE objects

-----------------------------------------------------------------------------
(* Tasks *)

NoRes == [kind |-> "none", provider |-> "-", key |-> 0, value |-> FALSE, err |-> "-"]

NoRec == [id |-> 0, userId |-> "-", size |-> 0, cloudProvider |-> "-", cloudPath |-> 0,
          uploadedAt |-> 0]

IdleTask ==
    [fop |-> "none", fpc |-> "idle", user |-> "-", fid |-> 0, size |-> 0,
     rec |-> NoRec, look |-> "-", quota |-> "-", fres |-> "-", eff |-> {},
     sop |-> "none", spc |-> "idle", rev |-> "-", key |-> 0, prov |-> "-", phase |-> "-",
     idx |-> 0, log |-> <<>>, inflight |-> {}, sres |-> NoRes,
     ldate |-> [year |-> 0, month |-> 0, day |-> 0, tod |-> 0],
     lday |-> [year |-> 0, month |-> 0, day |-> 0, tod |-> 0],
     lrow |-> 0,
     cyc |-> [year |-> 0, month |-> 0, day |-> 0, tod |-> 0],
     stats |-> <<>>]

\* throw new ServiceUnavailableException(msg) / throw new Error(msg)
Throw(tr, msg) ==
    [tr EXCEPT !.spc = "done", !.sres = [NoRes EXCEPT !.kind = "error", !.err = msg]]

Logged(tr, p, what) == [tr EXCEPT !.log = Append(@, <<p, what>>)]

-----------------------------------------------------------------------------
(* StorageService.uploadFile: for (const provider of this.providers) ...   *)

\* the provider the put loop stands on
PutProvider(tr) == providers[tr.idx]

\* mutant: the first provider that does not serve ends the call
PutNext_GiveUp(tr) == Throw(tr, "All storage providers are unavailable")

\* leaving one iteration of the loop without a return: the next provider,
\* or the throw that follows the loop
PutNext(tr) ==
    IF tr.idx < Len(providers)
    THEN [tr EXCEPT !.idx = @ + 1, !.spc = "probe"]
    ELSE Throw(tr, "All storage providers are unavailable")

\* mutant: the availability answer is ignored
PutAfterProbe_NoCheck(tr, avail) ==
    [Logged(tr, PutProvider(tr), IF avail THEN "available" ELSE "unavailable")
        EXCEPT !.spc = "start"]

\* const isAvailable = await provider.isAvailable(); if (isAvailable) {...} else {warn}
PutAfterProbe(tr, avail) ==
    IF avail
    THEN [Logged(tr, PutProvider(tr), "available") EXCEPT !.spc = "start"]
    ELSE PutNext(Logged(tr, PutProvider(tr), "unavailable"))

\* mutant: the loop goes on to the next provider while the upload is pending
PutStartUpload_Racing(tr) ==
    IF tr.idx < Len(providers)
    THEN [Logged(tr, PutProvider(tr), "upload")
            EXCEPT !.inflight = @ \cup {PutProvider(tr)}, !.idx = @ + 1, !.spc = "probe"]
    ELSE [Logged(tr, PutProvider(tr), "upload")
            EXCEPT !.inflight = @ \cup {PutProvider(tr)}, !.spc = "await"]

\* provider.uploadFile(file, key, mimetype) is called; the loop awaits it
PutStartUpload(tr) ==
    [Logged(tr, PutProvider(tr), "upload")
        EXCEPT !.inflight = @ \cup {PutProvider(tr)}, !.spc = "await"]

\* mutant: the result is tagged with the head of the list
PutAfterUpload_FirstTag(tr, ok) ==
    LET p == PutProvider(tr)
        tr1 == [tr EXCEPT !.inflight = @ \ {p}]
    IN  IF ok
        THEN [Logged(tr1, p, "uploaded")
                EXCEPT !.spc = "done", !.sres = [NoRes EXCEPT !.kind = "ok",
                                                   !.provider = providers[1],
                                                   !.key = tr.key]]
        ELSE PutNext(Logged(tr1, p, "uploadFailed"))

\* return await provider.uploadFile(...)  /  catch (error) { log }
PutAfterUpload(tr, ok) ==
    LET p == PutProvider(tr)
        tr1 == [tr EXCEPT !.inflight = @ \ {p}]
    IN  IF ok
        THEN [Logged(tr1, p, "uploaded")
                EXCEPT !.spc = "done", !.sres = [NoRes EXCEPT !.kind = "ok",
                                                   !.provider = ProviderUploadResult(p, tr.key).provider,
                                                   !.key = ProviderUploadResult(p, tr.key).key]]
        ELSE PutNext(Logged(tr1, p, "uploadFailed"))

\* entering StorageService.uploadFile(file, key, mimetype)
PutEnter(tr, key) ==
    [tr EXCEPT !.sop = "put", !.spc = "probe", !.key = key, !.prov = "-",
               !.phase = "-", !.idx = 1, !.log = <<>>, !.inflight = {}, !.sres = NoRes]

Storage_uploadFile_probe(t) ==
    /\ task[t].sop = "put" /\ task[t].spc = "probe"
    /\ \E answered \in Answers :
         task' = [task EXCEPT ![t] = PutAfterProbe(@, isAvailable(answered))]
    /\ UNCHANGED <<objects, files, nextId, users, history, now, unlinked>>

Storage_uploadFile_call(t) ==
    /\ task[t].sop = "put" /\ task[t].spc = "start"
    /\ task' = [task EXCEPT ![t] = PutStartUpload(@)]
    /\ UNCHANGED <<objects, files, nextId, users, history, now, unlinked>>

Storage_uploadFile_settle(t) ==
    /\ task[t].sop = "put" /\ task[t].spc = "await"
    /\ \E answered \in Answers :
         LET p == PutProvider(task[t])
             ok == ProviderUploadOk(answered)
         IN  /\ objects' = IF ok THEN [objects EXCEPT ![p] = @ \cup {task[t].key}]
                                 ELSE objects
             /\ task' = [task EXCEPT ![t] = PutAfterUpload(@, ok)]
    /\ UNCHANGED <<files, nextId, users, history, now, unlinked>>

-----------------------------------------------------------------------------
(* StorageService.downloadFile.  The tree holds two revisions of           *)
(* storage.service.ts that differ in this method only: one fails over to   *)
(* the other providers, one answers 503 and promises the file by e-mail.   *)
(* The service keeps no state, so the revision is drawn per call.          *)

Revisions == {"failover", "email"}

RECURSIVE NextOther(_, _)
\* for (const otherProvider of this.providers) {
\*   if (this.getProviderName(otherProvider) === provider) continue;
\* the first index >= i the loop does not skip
NextOther(i, provider) ==
    IF i > Len(providers) THEN i
    ELSE IF getProviderName(providers[i]) = provider THEN NextOther(i + 1, provider)
    ELSE i

\* the adapter the download stands on
GetProvider(tr) ==
    IF tr.phase = "selected" THEN getProviderByName(tr.prov) ELSE providers[tr.idx]

\* the failover loop from index i on, or the throw after it
GetLoopFrom(tr, i) ==
    IF NextOther(i, tr.prov) <= Len(providers)
    THEN [tr EXCEPT !.phase = "others", !.idx = NextOther(i, tr.prov), !.spc = "probe"]
    ELSE Throw(tr, "Unable to download file from any storage provider")

\* mutant: the failover loop is never entered
GetNext_NoFailover(tr, rev) ==
    Throw(tr, "Unable to download file from any storage provider")

\* mutant: the loop runs in the revision that has none
GetNext_AlwaysFailover(tr, rev) ==
    IF tr.phase = "selected" THEN GetLoopFrom(tr, 1) ELSE GetLoopFrom(tr, tr.idx + 1)

\* what follows an attempt that did not return
GetNext(tr, rev) ==
    IF tr.phase = "selected"
    THEN IF rev = "failover"
         THEN GetLoopFrom(tr, 1)
         ELSE Throw(tr, "Storage provider is currently unavailable. The file will be sent to your registered email once service is restored.")
    ELSE GetLoopFrom(tr, tr.idx + 1)

\* const selectedProvider = this.getProviderByName(provider); if (selectedProvider) {
GetEnter(tr, key, provider, rev) ==
    LET tr1 == [tr EXCEPT !.sop = "get", !.rev = rev, !.key = key, !.prov = provider,
                          !.phase = "selected", !.idx = 0, !.log = <<>>,
                          !.inflight = {}, !.sres = NoRes]
    IN  IF getProviderByName(provider) # "undefined"
        THEN [tr1 EXCEPT !.spc = "probe"]
        ELSE GetNext(tr1, rev)

\* const isAvailable = await p.isAvailable(); if (isAvailable) { return await p.downloadFile(key) }
GetAfterProbe(tr, avail, rev) ==
    IF avail
    THEN [Logged(tr, GetProvider(tr), "available") EXCEPT !.spc = "download"]
    ELSE GetNext(Logged(tr, GetProvider(tr), "unavailable"), rev)

\* return await p.downloadFile(key)  /  catch (error) { log }
GetAfterDownload(tr, ok, rev) ==
    IF ok
    THEN [Logged(tr, GetProvider(tr), "downloaded")
            EXCEPT !.spc = "done", !.sres = [NoRes EXCEPT !.kind = "ok",
                                               !.provider = GetProvider(tr),
                                               !.key = tr.key]]
    ELSE GetNext(Logged(tr, GetProvider(tr), "downloadFailed"), rev)

Storage_downloadFile_probe(t) ==
    /\ task[t].sop = "get" /\ task[t].spc = "probe"
    /\ \E answered \in Answers :
         task' = [task EXCEPT ![t] = GetAfterProbe(@, isAvailable(answered), @.rev)]
    /\ UNCHANGED <<objects, files, nextId, users, history, now, unlinked>>

Storage_downloadFile_call(t) ==
    /\ task[t].sop = "get" /\ task[t].spc = "download"
    /\ \E answered \in Answers :
         task' = [task EXCEPT ![t] =
                    GetAfterDownload(@, ProviderDownloadOk(GetProvider(@), @.key, answered),
                                     @.rev)]
    /\ UNCHANGED <<objects, files, nextId, users, history, now, unlinked>>

-----------------------------------------------------------------------------
(* StorageService.deleteFile                                               *)

DelEnter(tr, key, provider) ==
    [tr EXCEPT !.sop = "del", !.spc = "delete", !.key = key, !.prov = provider,
               !.phase = "-", !.idx = 0, !.log = <<>>, !.inflight = {}, !.sres = NoRes]

\* mutant: an unknown provider falls back to the head of the list
DelTarget_Fallback(provider) ==
    IF getProviderByName(provider) = "undefined" THEN providers[1]
    ELSE getProviderByName(provider)

\* const selectedProvider = this.getProviderByName(provider)
DelTarget(provider) == getProviderByName(provider)

\* if (!selectedProvider) throw new Error(...); return await selectedProvider.deleteFile(key)
Storage_deleteFile(t) ==
    /\ task[t].sop = "del" /\ task[t].spc = "delete"
    /\ LET p == DelTarget(task[t].prov)
           key == task[t].key
       IN  IF p = "undefined"
           THEN /\ task' = [task EXCEPT ![t] = Throw(@, "Provider not found")]
                /\ UNCHANGED <<objects, unlinked>>
           ELSE \E answered \in Answers :
                  /\ task' = [task EXCEPT ![t] =
                                [Logged(@, p, "delete")
                                   EXCEPT !.spc = "done",
                                          !.sres = [NoRes EXCEPT !.kind = "ok",
                                                      !.provider = p, !.key = key,
                                                      !.value = ProviderDeleteReturns(p, key, answered)]]]
                  /\ objects' = ProviderDeleteObjects(p, key, answered)
                  /\ unlinked' = IF task[t].fop = "delete" /\ objects' # objects
                                 THEN unlinked \cup {task[t].fid}
                                 ELSE unlinked
    /\ UNCHANGED <<files, nextId, users, history, now>>

-----------------------------------------------------------------------------
(* Dates.  month is 0-based as in JavaScript; tod is the time of day.       *)

Date(y, m, d, tod) == [year |-> y, month |-> m, day |-> d, tod |-> tod]

\* a nextQuotaResetDate that is null
NullDate == Date(0, 0, 0, 0)

\* Date.prototype.getTime, up to a monotone rescaling
getTime(d) == ((d.year * 12 + d.month) * 32 + d.day) * 2 + d.tod

IsLeapYear(y) == (y % 4 = 0 /\ y % 100 # 0) \/ y % 400 = 0

\* new Date(year, month + 1, 0).getDate()
daysInMonth(year, month) ==
    IF month = 1 THEN (IF IsLeapYear(year) THEN 29 ELSE 28)
    ELSE IF month \in {3, 5, 8, 10} THEN 30
    ELSE 31

Min(a, b) == IF a <= b THEN a ELSE b

\* mutant: the day is not clamped, so the Date constructor carries the
\* overflow into the following month
addOneMonth_NoClamp(orig) ==
    LET newMonthIndex == orig.month + 1
        newYear == orig.year + (newMonthIndex \div 12)
        newMonth == newMonthIndex % 12
        dim == daysInMonth(newYear, newMonth)
    IN  IF orig.day <= dim
        THEN Date(newYear, newMonth, orig.day, orig.tod)
        ELSE Date(newYear + ((newMonth + 1) \div 12), (newMonth + 1) % 12,
                  orig.day - dim, orig.tod)

\* UsersService.addOneMonth / AuthService.addOneMonth (the same text)
addOneMonth(orig) ==
    LET newMonthIndex == orig.month + 1
        newYear == orig.year + (newMonthIndex \div 12)
        newMonth == newMonthIndex % 12
        newDay == Min(orig.day, daysInMonth(newYear, newMonth))
    IN  Date(newYear, newMonth, newDay, orig.tod)

\* mutant: the new date is counted from the current time, not from the old date
RollForward_FromNow(newResetDate, n) == addOneMonth(n)

\* mutant: one month is added once, without the loop
RollForward_Once(newResetDate, n) == addOneMonth(newResetDate)

RECURSIVE RollForward(_, _)
\* while (newResetDate <= now) newResetDate = this.addOneMonth(newResetDate)
RollForward(newResetDate, n) ==
    IF getTime(newResetDate) <= getTime(n)
    THEN RollForward(addOneMonth(newResetDate), n)
    ELSE newResetDate

\* The instants the clock visits: registration day and a day two cycles later.
Instants == <<Date(2024, 0, 31, 1), Date(2024, 3, 10, 0)>>

InstantSet == {Instants[i] : i \in 1..Len(Instants)}

\* today.setHours(0, 0, 0, 0)
StartOfDay(d) == Date(d.year, d.month, d.day, 0)

\* date >= today && date < today + 24h
SameDay(date, n) ==
    date.year = n.year /\ date.month = n.month /\ date.day = n.day

Tick ==
    /\ \E d \in InstantSet : getTime(d) > getTime(now) /\ now' = d
    /\ UNCHANGED <<objects, task, files, nextId, users, history, unlinked>>

-----------------------------------------------------------------------------
(* UsersService: quota check and usage ledger                              *)

\* ids a request may carry: two registered users and one without a row
UserIds == {"u1", "u2", "u0"}

\* mutant: the reset is taken to be due at every call
ResetDue_Always(nextResetDate, n) == TRUE

\* if (!nextResetDate || nextResetDate <= now)
ResetDue(nextResetDate, n) ==
    nextResetDate = NullDate \/ getTime(nextResetDate) <= getTime(n)

\* mutant: the reset is written whether or not it is due
checkAndResetQuotaIfNeeded_Always(tbl, userId, nextResetDate, n) ==
    [tbl EXCEPT ![userId].monthlyUsage = 0,
                ![userId].nextQuotaResetDate =
                    RollForward(IF nextResetDate = NullDate THEN n ELSE nextResetDate, n)]

\* checkAndResetQuotaIfNeeded(userId, nextResetDate): the User table after it
checkAndResetQuotaIfNeeded(tbl, userId, nextResetDate, n) ==
    IF ResetDue(nextResetDate, n)
    THEN [tbl EXCEPT ![userId].monthlyUsage = 0,
                     ![userId].nextQuotaResetDate =
                         RollForward(IF nextResetDate = NullDate THEN n ELSE nextResetDate, n)]
    ELSE tbl

\* mutant: the usage so far is left out of the sum
HasQuota_IgnoresUsage(usageInBytes, fileSize, maxStorageInBytes) ==
    fileSize <= maxStorageInBytes

\* mutant: the comparison allows one byte more than the capacity
HasQuota_OffByOne(usageInBytes, fileSize, maxStorageInBytes) ==
    usageInBytes + fileSize <= maxStorageInBytes + 1

\* mutant: the size of the candidate file is left out of the sum
HasQuota_Lenient(usageInBytes, fileSize, maxStorageInBytes) ==
    usageInBytes <= maxStorageInBytes

\* mutant: the boundary is exclusive
HasQuota_Strict(usageInBytes, fileSize, maxStorageInBytes) ==
    usageInBytes + fileSize < maxStorageInBytes

\* return (usageInBytes + fileSize) <= maxStorageInBytes
HasQuota(usageInBytes, fileSize, maxStorageInBytes) ==
    usageInBytes + fileSize <= maxStorageInBytes

\* mutant: the check clears the usage whether or not a reset is due
QuotaTable_ZeroesUsage(tbl, userId, n) ==
    [checkAndResetQuotaIfNeeded(tbl, userId, tbl[userId].nextQuotaResetDate, n)
        EXCEPT ![userId].monthlyUsage = 0]

\* checkUserStorageQuota(userId, fileSize): the table after the reset check
\* and the answer computed from the fresh row
QuotaTable(tbl, userId, n) ==
    checkAndResetQuotaIfNeeded(tbl, userId, tbl[userId].nextQuotaResetDate, n)

\* mutant: the answer is computed from the row read before the reset check
checkUserStorageQuota_StaleRead(tbl, userId, fileSize, n) ==
    HasQuota(tbl[userId].monthlyUsage, fileSize, tbl[userId].maxStorageCapacity)

\* const freshUser = await findUnique(...); return usage + fileSize <= max
checkUserStorageQuota(tbl, userId, fileSize, n) ==
    HasQuota(QuotaTable(tbl, userId, n)[userId].monthlyUsage, fileSize,
             tbl[userId].maxStorageCapacity)

\* mutant: the lookup leaves the user id out of the filter
TodayRows_AnyUser(h, userId, n) == {r \in h : SameDay(r.date, n)}

\* mutant: the lookup finds nothing
TodayRows_None(h, userId, n) == {}

\* the UsageHistory rows of this user dated today
TodayRows(h, userId, n) == {r \in h : r.userId = userId /\ SameDay(r.date, n)}

\* findFirst ... if (existingRecord) update {increment} else create
UpsertHistory(h, userId, fileSize, n) ==
    IF TodayRows(h, userId, n) # {}
    THEN LET r == CHOOSE x \in TodayRows(h, userId, n) : TRUE
         IN  (h \ {r}) \cup {[r EXCEPT !.usageBytes = @ + fileSize]}
    ELSE h \cup {[id |-> Cardinality(h) + 1, userId |-> userId,
                  date |-> StartOfDay(n), usageBytes |-> fileSize]}

\* mutant: the result is floored at 0
UsageTable_Clamped(tbl, userId, fileSize, n) ==
    [QuotaTable(tbl, userId, n) EXCEPT ![userId].monthlyUsage =
        IF @ + fileSize < 0 THEN 0 ELSE @ + fileSize]

\* mutant: the usage is overwritten with the delta instead of incremented
UsageTable_Overwrite(tbl, userId, fileSize, n) ==
    [QuotaTable(tbl, userId, n) EXCEPT ![userId].monthlyUsage = fileSize]

\* updateUserStorageUsage(userId, fileSize): reset check, then increment
UsageTable(tbl, userId, fileSize, n) ==
    [QuotaTable(tbl, userId, n) EXCEPT ![userId].monthlyUsage = @ + fileSize]

\* what a reset check writes that differs from what was stored
ResetEffects(tbl, userId, n) ==
    IF ResetDue(tbl[userId].nextQuotaResetDate, n)
    THEN {"resetDate"} \cup (IF tbl[userId].monthlyUsage # 0 THEN {"usage.reset"} ELSE {})
    ELSE {}

RECURSIVE ResetAll(_, _, _)
\* for (const user of users) await checkAndResetQuotaIfNeeded(user.id, user.nextQuotaResetDate)
ResetAll(tbl, ids, n) ==
    IF ids = {} THEN tbl
    ELSE LET id == CHOOSE x \in ids : TRUE
         IN  ResetAll(checkAndResetQuotaIfNeeded(tbl, id, tbl[id].nextQuotaResetDate, n),
                      ids \ {id}, n)

\* resetMonthlyUsage(): the reset check for every user, called between requests
Users_resetMonthlyUsage ==
    /\ \A t \in Tasks : task[t] = IdleTask
    /\ users' = ResetAll(users, DOMAIN users, now)
    /\ UNCHANGED <<objects, task, files, nextId, history, now, unlinked>>

-----------------------------------------------------------------------------
(* FilesService                                                            *)

\* prisma.file.findUnique({ where: { id: fileId } })
findUnique(fileId) ==
    IF \E f \in files : f.id = fileId
    THEN CHOOSE f \in files : f.id = fileId
    ELSE NoRec

\* mutant: the owner is not compared
Visible_AnyOwner(file, userId) == file # NoRec

\* if (!file) throw NotFound; if (file.userId !== userId) throw NotFound
Visible(file, userId) == file # NoRec /\ file.userId = userId

Respond(tr, res) == [tr EXCEPT !.fpc = "done", !.fres = res]

Idle(t) == task[t].fpc = "idle" /\ task[t].sop = "none"

\* A request arrives and runs to its first database answer.
Arrived(op, userId, fileId) ==
    [IdleTask EXCEPT !.fop = op, !.user = userId, !.fid = fileId]

\* the response has been sent
Finish(t) ==
    /\ task[t].fpc = "done"
    /\ task' = [task EXCEPT ![t] = IdleTask]
    /\ UNCHANGED <<objects, files, nextId, users, history, now, unlinked>>

\* uploadFile: const hasQuota = await checkUserStorageQuota(userId, fileSize)
\* uuidv4(), drawn once the check has passed, and the record id are fresh
\* names, numbered here in the order the puts are entered
Files_uploadFile_check(t) ==
    /\ Idle(t)
    /\ nextId < MaxFiles
    /\ \E userId \in UserIds, fileSize \in Sizes :
       LET tr == [Arrived("upload", userId, nextId + 1) EXCEPT !.size = fileSize]
       IN  IF tr.user \notin DOMAIN users
           THEN /\ task' = [task EXCEPT ![t] = Respond(tr, "UserNotFound")]
                /\ UNCHANGED <<users, nextId>>
           ELSE /\ users' = QuotaTable(users, tr.user, now)
                /\ LET tr1 == [tr EXCEPT !.eff = @ \cup ResetEffects(users, tr.user, now)]
                   IN  IF checkUserStorageQuota(users, tr.user, tr.size, now)
                       THEN /\ task' = [task EXCEPT ![t] =
                                          PutEnter([tr1 EXCEPT !.quota = "yes", !.fpc = "put"],
                                                   tr.fid)]
                            /\ nextId' = nextId + 1
                       ELSE /\ task' = [task EXCEPT ![t] =
                                          Respond([tr1 EXCEPT !.quota = "no"], "QuotaExceeded")]
                            /\ UNCHANGED nextId
    /\ UNCHANGED <<objects, files, history, now, unlinked>>

\* mutant: the record is written with the head of the provider list
NewFile_FirstProvider(tr) ==
    [id |-> tr.fid, userId |-> tr.user, size |-> tr.size,
     cloudProvider |-> providers[1], cloudPath |-> tr.sres.key, uploadedAt |-> now]

\* prisma.file.create({ data: { ..., cloudProvider: uploadResult.provider,
\*                               cloudPath: uploadResult.key, userId } });
\* uploadedAt is the instant of the create (returned as fileRecord.uploadedAt)
NewFile(tr) ==
    [id |-> tr.fid, userId |-> tr.user, size |-> tr.size,
     cloudProvider |-> tr.sres.provider, cloudPath |-> tr.sres.key, uploadedAt |-> now]

\* mutant: the upload's failure is swallowed and the record written anyway
PutFailed_Ignored(tr) == FALSE

\* await this.storageService.uploadFile(...) rejected
PutFailed(tr) == tr.sres.kind = "error"

\* mutant: the rejection of the catalog write is swallowed
CreateRejected_Swallowed(tr) == Respond(tr, "ok")

\* await this.prisma.file.create(...) rejected: the rejection leaves uploadFile
CreateRejected(tr) == Respond(tr, "DbError")

\* uploadFile: the put has settled; then await prisma.file.create(...)
Files_uploadFile_create(t) ==
    /\ task[t].fop = "upload" /\ task[t].fpc = "put" /\ task[t].spc = "done"
    /\ LET tr == task[t]
       IN  IF PutFailed(tr)
           THEN /\ task' = [task EXCEPT ![t] = Respond(@, "ServiceUnavailable")]
                /\ UNCHANGED files
           ELSE \E dbOk \in BOOLEAN :
                  IF dbOk
                  THEN /\ files' = files \cup {NewFile(tr)}
                       /\ task' = [task EXCEPT ![t] =
                                     [@ EXCEPT !.fpc = "record", !.rec = NewFile(tr),
                                               !.eff = @ \cup {"file.create"}]]
                  ELSE /\ task' = [task EXCEPT ![t] = CreateRejected(@)]
                       /\ UNCHANGED files
    /\ UNCHANGED <<objects, nextId, users, history, now, unlinked>>

\* await this.usersService.updateUserStorageUsage(userId, delta); return
RecordUsage(t, delta, res) ==
    LET tr == task[t]
    IN  /\ users' = UsageTable(users, tr.user, delta, now)
        /\ history' = UpsertHistory(history, tr.user, delta, now)
        /\ task' = [task EXCEPT ![t] =
                      Respond([@ EXCEPT !.eff = @ \cup ResetEffects(users, tr.user, now)
                                                \cup {"usage.increment", "history"}], res)]

Files_uploadFile_record(t) ==
    /\ task[t].fop = "upload" /\ task[t].fpc = "record"
    /\ RecordUsage(t, task[t].size, "ok")
    /\ UNCHANGED <<objects, files, nextId, now, unlinked>>

\* getFile: findUnique, the two checks, the DTO
Files_getFile(t) ==
    /\ Idle(t)
    /\ \E userId \in UserIds, fileId \in Keys :
       LET file == findUnique(fileId)
           tr == Arrived("getFile", userId, fileId)
       IN  task' = [task EXCEPT ![t] =
                      Respond([tr EXCEPT !.rec = file],
                              IF Visible(file, userId) THEN "ok" ELSE "NotFound")]
    /\ UNCHANGED <<objects, files, nextId, users, history, now, unlinked>>

\* getFileForDownload: findUnique, the two checks, then storageService.downloadFile
Files_getFileForDownload_lookup(t) ==
    /\ Idle(t)
    /\ \E userId \in UserIds, fileId \in Keys :
       LET file == findUnique(fileId)
           tr == Arrived("download", userId, fileId)
       IN  \E rev \in Revisions :
             task' = [task EXCEPT ![t] =
                        IF Visible(file, userId)
                        THEN GetEnter([tr EXCEPT !.rec = file, !.fpc = "get"],
                                      file.cloudPath, file.cloudProvider, rev)
                        ELSE Respond([tr EXCEPT !.rec = file], "NotFound")]
    /\ UNCHANGED <<objects, files, nextId, users, history, now, unlinked>>

\* getFileForDownload: the download settled; a rejection propagates (503)
Files_getFileForDownload_return(t) ==
    /\ task[t].fop = "download" /\ task[t].fpc = "get" /\ task[t].spc = "done"
    /\ task' = [task EXCEPT ![t] =
                  Respond(@, IF @.sres.kind = "ok" THEN "ok" ELSE "ServiceUnavailable")]
    /\ UNCHANGED <<objects, files, nextId, users, history, now, unlinked>>

\* deleteFile: findUnique, the two checks, then storageService.deleteFile
Files_deleteFile_lookup(t) ==
    /\ Idle(t)
    /\ \E userId \in UserIds, fileId \in Keys :
       LET file == findUnique(fileId)
           tr == Arrived("delete", userId, fileId)
       IN  task' = [task EXCEPT ![t] =
                      IF Visible(file, userId)
                      THEN DelEnter([tr EXCEPT !.rec = file, !.size = file.size,
                                              !.fpc = "storageDelete"],
                                    file.cloudPath, file.cloudProvider)
                      ELSE Respond([tr EXCEPT !.rec = file], "NotFound")]
    /\ UNCHANGED <<objects, files, nextId, users, history, now, unlinked>>

\* mutant: a false from the storage delete aborts the request
DeleteProceeds_OnlyIfRemoved(tr) == tr.sres.kind = "ok" /\ tr.sres.value

\* await this.storageService.deleteFile(...): the boolean is not looked at;
\* only a rejection stops the handler
DeleteProceeds(tr) == tr.sres.kind = "ok"

\* mutant: deleting a row that is gone succeeds, as deleteMany would
DeleteRejects_Never(fileId) == FALSE

\* prisma.file.delete({ where: { id: fileId } }) rejects when no row has the id
DeleteRejects(fileId) == findUnique(fileId) = NoRec

\* deleteFile: the storage delete settled; then await prisma.file.delete(...)
\* which rejects when the row is gone
Files_deleteFile_dbDelete(t) ==
    /\ task[t].fop = "delete" /\ task[t].fpc = "storageDelete" /\ task[t].spc = "done"
    /\ LET tr == task[t]
       IN  IF ~DeleteProceeds(tr)
           THEN /\ task' = [task EXCEPT ![t] = Respond(@, "Error")]
                /\ UNCHANGED <<files, unlinked>>
           ELSE \E dbOk \in BOOLEAN :
                  IF dbOk /\ ~DeleteRejects(tr.fid)
                  THEN /\ files' = files \ {findUnique(tr.fid)}
                       /\ unlinked' = unlinked \ {tr.fid}
                       /\ task' = [task EXCEPT ![t] =
                                     [@ EXCEPT !.fpc = "record",
                                               !.eff = @ \cup {"file.delete"}]]
                  ELSE /\ task' = [task EXCEPT ![t] = Respond(@, "DbError")]
                       /\ UNCHANGED <<files, unlinked>>
    /\ UNCHANGED <<objects, nextId, users, history, now>>

\* mutant: a delete takes nothing off the usage
DeleteDelta_Zero(file) == 0

\* mutant: the sign is not flipped
DeleteDelta_Positive(file) == file.size

\* const fileSize = Number(file.size) * -1
DeleteDelta(file) == file.size * (0 - 1)

\* deleteFile: updateUserStorageUsage(userId, fileSize); return true
Files_deleteFile_record(t) ==
    /\ task[t].fop = "delete" /\ task[t].fpc = "record"
    /\ RecordUsage(t, DeleteDelta(task[t].rec), "true")
    /\ UNCHANGED <<objects, files, nextId, now, unlinked>>

-----------------------------------------------------------------------------
(* Calls made on StorageService directly, with any provider string         *)

StorageCall(t) ==
    /\ task[t].fpc = "idle" /\ task[t].sop = "none"
    /\ \E key \in Keys :
         \/ task' = [task EXCEPT ![t] = PutEnter(IdleTask, key)]
         \/ \E provider \in ProviderArgs, rev \in Revisions :
              task' = [task EXCEPT ![t] = GetEnter(IdleTask, key, provider, rev)]
         \/ \E provider \in ProviderArgs :
              task' = [task EXCEPT ![t] = DelEnter(IdleTask, key, provider)]
    /\ UNCHANGED <<objects, files, nextId, users, history, now, unlinked>>

StorageReturn(t) ==
    /\ task[t].fop = "none" /\ task[t].spc = "done"
    /\ task' = [task EXCEPT ![t] = IdleTask]
    /\ UNCHANGED <<objects, files, nextId, users, history, now, unlinked>>

-----------------------------------------------------------------------------
(* Specifications                                                          *)

\* AuthService.register: monthlyUsage 0, nextQuotaResetDate = addOneMonth(now).
\* u2 is a row from before the reset date existed: no date yet.
\* createdAt is the instant of registration (the column findOne selects).
InitialUsers ==
    [u \in {"u1", "u2"} |->
        [monthlyUsage |-> 0,
         nextQuotaResetDate |-> IF u = "u1" THEN addOneMonth(Instants[1]) ELSE NullDate,
         maxStorageCapacity |-> MaxCapacity,
         createdAt |-> Instants[1]]]

Init ==
    /\ objects = [p \in ProviderNames |-> {}]
    /\ task = [t \in Tasks |-> IdleTask]
    /\ files = {}
    /\ nextId = 0
    /\ users = InitialUsers
    /\ history = {}
    /\ now = Instants[1]
    /\ unlinked = {}

StorageStep(t) ==
    \/ Storage_uploadFile_probe(t)
    \/ Storage_uploadFile_call(t)
    \/ Storage_uploadFile_settle(t)
    \/ Storage_downloadFile_probe(t)
    \/ Storage_downloadFile_call(t)
    \/ Storage_deleteFile(t)

FilesStep(t) ==
    \/ Files_uploadFile_check(t)
    \/ Files_uploadFile_create(t)
    \/ Files_uploadFile_record(t)
    \/ Files_getFile(t)
    \/ Files_getFileForDownload_lookup(t)
    \/ Files_getFileForDownload_return(t)
    \/ Files_deleteFile_lookup(t)
    \/ Files_deleteFile_dbDelete(t)
    \/ Files_deleteFile_record(t)
    \/ Finish(t)

Next ==
    \/ \E t \in OneTask : FilesStep(t) \/ StorageStep(t)
    \/ Users_resetMonthlyUsage
    \/ Tick

\* the whole service: requests through FilesService
Spec == Init /\ [][Next]_vars

\* one file of u1 is stored and recorded: the state after a completed upload
InitDeletes ==
    /\ task = [t \in Tasks |-> IdleTask]
    /\ nextId = 1
    /\ now = Instants[1]
    /\ unlinked = {}
    /\ \E fileSize \in 1..MaxCapacity, p \in ProviderNames :
         /\ objects = [q \in ProviderNames |-> IF q = p THEN {1} ELSE {}]
         /\ files = {[id |-> 1, userId |-> "u1", size |-> fileSize,
                     cloudProvider |-> p, cloudPath |-> 1, uploadedAt |-> Instants[1]]}
         /\ users = [InitialUsers EXCEPT !["u1"].monthlyUsage = fileSize]
         /\ history = {[id |-> 1, userId |-> "u1", date |-> StartOfDay(Instants[1]),
                       usageBytes |-> fileSize]}

DeleteStep(t) ==
    \/ Files_deleteFile_lookup(t)
    \/ Storage_deleteFile(t)
    \/ Files_deleteFile_dbDelete(t)
    \/ Files_deleteFile_record(t)
    \/ Finish(t)

NextDeletes ==
    \/ \E t \in TwoTasks : DeleteStep(t)
    \/ Tick

\* two deleteFile requests at once, on a catalog that holds one file
SpecDeletes == InitDeletes /\ [][NextDeletes]_vars

NextStorage ==
    \/ \E t \in OneTask : StorageCall(t) \/ StorageStep(t) \/ StorageReturn(t)

\* StorageService alone, called with arbitrary keys and provider strings
SpecStorage == Init /\ [][NextStorage]_vars

\* The event loop runs every continuation that is ready: the steps that wait
\* for no backend are taken when they can be.  An await on a provider call
\* (isAvailable, uploadFile, downloadFile, deleteFile) resumes only when the
\* backend responds; the code sets no timer on it, so nothing obliges the
\* steps that consume a response to happen.
FairStorage ==
    /\ WF_vars(\E t \in OneTask : Storage_uploadFile_call(t))
    /\ WF_vars(\E t \in OneTask : StorageReturn(t))

\* StorageService alone, with the scheduling the runtime guarantees
SpecStorageLive == Init /\ [][NextStorage]_vars /\ FairStorage

-----------------------------------------------------------------------------
(* UsersService under concurrent requests.  Every await of                 *)
(* checkUserStorageQuota and updateUserStorageUsage is a step of its own;  *)
(* a request keeps what it read (ldate: the reset date, lday: today, lrow: *)
(* the id of the entry findFirst returned) and cyc notes the reset date    *)
(* stored at the moment of its increment.  Each request calls the capacity *)
(* check and, if it passed, the usage update, as uploadFile does.          *)

\* the UsageHistory table is keyed by (user, day): a create under a key that
\* exists is rejected by the store
DailyEntryExists(h, userId, day) == \E r \in h : r.userId = userId /\ r.date = day

\* uploadFile(file, userId) reaches checkUserStorageQuota(userId, file.size).
\* The requests of one run are those of one user; they are numbered in the
\* order in which they arrive.
Users_call(t) ==
    /\ task[t] = IdleTask
    /\ \A o \in Tasks : o < t => task[o] # IdleTask
    /\ \E userId \in DOMAIN users, fileSize \in Sizes :
         /\ \A o \in Tasks : task[o] # IdleTask => task[o].user = userId
         /\ task' = [task EXCEPT ![t] =
                       [Arrived("upload", userId, 0) EXCEPT !.size = fileSize,
                                                            !.fpc = "quota.find"]]
    /\ UNCHANGED <<objects, files, nextId, users, history, now, unlinked>>

\* const user = await prisma.user.findUnique(...)
Users_checkUserStorageQuota_find(t) ==
    /\ task[t].fpc = "quota.find"
    /\ task' = [task EXCEPT ![t] =
                  [@ EXCEPT !.ldate = users[task[t].user].nextQuotaResetDate,
                            !.fpc = "quota.reset"]]
    /\ UNCHANGED <<objects, files, nextId, users, history, now, unlinked>>

\* await this.checkAndResetQuotaIfNeeded(userId, user.nextQuotaResetDate)
Users_checkUserStorageQuota_reset(t) ==
    /\ task[t].fpc = "quota.reset"
    /\ users' = checkAndResetQuotaIfNeeded(users, task[t].user, task[t].ldate, now)
    /\ task' = [task EXCEPT ![t] =
                  [@ EXCEPT !.fpc = "quota.fresh",
                            !.eff = @ \cup (IF ResetDue(task[t].ldate, now)
                                            THEN {"resetDate"} ELSE {})]]
    /\ UNCHANGED <<objects, files, nextId, history, now, unlinked>>

\* const freshUser = await prisma.user.findUnique(...); return usage + fileSize <= max
Users_checkUserStorageQuota_return(t) ==
    /\ task[t].fpc = "quota.fresh"
    /\ task' = [task EXCEPT ![t] =
                  IF HasQuota(users[@.user].monthlyUsage, @.size,
                              users[@.user].maxStorageCapacity)
                  THEN [@ EXCEPT !.quota = "yes", !.fpc = "usage.find"]
                  ELSE Respond([@ EXCEPT !.quota = "no"], "QuotaExceeded")]
    /\ UNCHANGED <<objects, files, nextId, users, history, now, unlinked>>

\* updateUserStorageUsage: const user = await prisma.user.findUnique(...)
Users_updateUserStorageUsage_find(t) ==
    /\ task[t].fpc = "usage.find"
    /\ task' = [task EXCEPT ![t] =
                  [@ EXCEPT !.ldate = users[task[t].user].nextQuotaResetDate,
                            !.fpc = "usage.reset"]]
    /\ UNCHANGED <<objects, files, nextId, users, history, now, unlinked>>

\* await this.checkAndResetQuotaIfNeeded(userId, user.nextQuotaResetDate)
Users_updateUserStorageUsage_reset(t) ==
    /\ task[t].fpc = "usage.reset"
    /\ users' = checkAndResetQuotaIfNeeded(users, task[t].user, task[t].ldate, now)
    /\ task' = [task EXCEPT ![t] =
                  [@ EXCEPT !.fpc = "usage.increment",
                            !.eff = @ \cup (IF ResetDue(task[t].ldate, now)
                                            THEN {"resetDate"} ELSE {})]]
    /\ UNCHANGED <<objects, files, nextId, history, now, unlinked>>

\* await prisma.user.update({ data: { monthlyUsage: { increment: fileSize } } });
\* const today = new Date(); today.setHours(0, 0, 0, 0)
Users_updateUserStorageUsage_increment(t) ==
    /\ task[t].fpc = "usage.increment"
    /\ users' = [users EXCEPT ![task[t].user].monthlyUsage = @ + task[t].size]
    /\ task' = [task EXCEPT ![t] =
                  [@ EXCEPT !.fpc = "history.find",
                            !.eff = @ \cup {"usage.increment"},
                            !.cyc = users[task[t].user].nextQuotaResetDate,
                            !.lday = StartOfDay(now)]]
    /\ UNCHANGED <<objects, files, nextId, history, now, unlinked>>

\* const existingRecord = await prisma.usageHistory.findFirst(...)
Users_updateUserStorageUsage_findFirst(t) ==
    /\ task[t].fpc = "history.find"
    /\ LET rows == TodayRows(history, task[t].user, task[t].lday)
       IN  task' = [task EXCEPT ![t] =
                      [@ EXCEPT !.fpc = "history.write",
                                !.lrow = IF rows = {} THEN 0
                                         ELSE (CHOOSE r \in rows : TRUE).id]]
    /\ UNCHANGED <<objects, files, nextId, users, history, now, unlinked>>

\* if (existingRecord) usageHistory.update({ where: { id } ... increment })
\* else usageHistory.create({ data: { userId, date: today, usageBytes } })
Users_updateUserStorageUsage_write(t) ==
    /\ task[t].fpc = "history.write"
    /\ LET tr == task[t]
       IN  IF tr.lrow # 0
           THEN /\ history' = {IF r.id = tr.lrow
                               THEN [r EXCEPT !.usageBytes = @ + tr.size] ELSE r : r \in history}
                /\ task' = [task EXCEPT ![t] =
                              Respond([@ EXCEPT !.eff = @ \cup {"history"}], "ok")]
           ELSE IF DailyEntryExists(history, tr.user, tr.lday)
                THEN /\ task' = [task EXCEPT ![t] = Respond(@, "DbError")]
                     /\ UNCHANGED history
                ELSE /\ history' = history \cup {[id |-> Cardinality(history) + 1,
                                                  userId |-> tr.user, date |-> tr.lday,
                                                  usageBytes |-> tr.size]}
                     /\ task' = [task EXCEPT ![t] =
                                   Respond([@ EXCEPT !.eff = @ \cup {"history"}], "ok")]
    /\ UNCHANGED <<objects, files, nextId, users, now, unlinked>>

LedgerStep(t) ==
    \/ Users_call(t)
    \/ Users_checkUserStorageQuota_find(t)
    \/ Users_checkUserStorageQuota_reset(t)
    \/ Users_checkUserStorageQuota_return(t)
    \/ Users_updateUserStorageUsage_find(t)
    \/ Users_updateUserStorageUsage_reset(t)
    \/ Users_updateUserStorageUsage_increment(t)
    \/ Users_updateUserStorageUsage_findFirst(t)
    \/ Users_updateUserStorageUsage_write(t)

\* two cycles after registration: the stored reset date of u1 is stale, u2 has none
InitLedger ==
    /\ objects = [p \in ProviderNames |-> {}]
    /\ task = [t \in Tasks |-> IdleTask]
    /\ files = {}
    /\ nextId = 0
    /\ users = InitialUsers
    /\ history = {}
    /\ now = Instants[2]
    /\ unlinked = {}

NextLedger == \E t \in Tasks : LedgerStep(t)

\* up to three requests of one user at once, each going through the ledger once
SpecLedger == InitLedger /\ [][NextLedger]_vars

-----------------------------------------------------------------------------
(* Two requests at once, of the same user or of different users: an upload *)
(* (capacity check, then usage update) or the usage update of a delete.    *)

\* uploadFile reaches checkUserStorageQuota(userId, file.size), or deleteFile
\* reaches updateUserStorageUsage(userId, -file.size)
Users_request(t) ==
    /\ task[t] = IdleTask
    /\ \A o \in TwoTasks : o < t => task[o] # IdleTask
    /\ \E userId \in DOMAIN users, fileSize \in Sizes :
         \/ task' = [task EXCEPT ![t] =
                       [Arrived("upload", userId, 0) EXCEPT !.size = fileSize,
                                                            !.fpc = "quota.find"]]
         \/ task' = [task EXCEPT ![t] =
                       [Arrived("delete", userId, 0)
                          EXCEPT !.size = DeleteDelta([NoRec EXCEPT !.size = fileSize]),
                                 !.fpc = "usage.find"]]
    /\ UNCHANGED <<objects, files, nextId, users, history, now, unlinked>>

\* the awaits of a request, one step each
RequestStep(t) ==
    \/ Users_request(t)
    \/ Users_checkUserStorageQuota_find(t)
    \/ Users_checkUserStorageQuota_reset(t)
    \/ Users_checkUserStorageQuota_return(t)
    \/ Users_updateUserStorageUsage_find(t)
    \/ Users_updateUserStorageUsage_reset(t)
    \/ Users_updateUserStorageUsage_increment(t)
    \/ Users_updateUserStorageUsage_findFirst(t)
    \/ Users_updateUserStorageUsage_write(t)

NextScoped == \E t \in TwoTasks : RequestStep(t)

\* two concurrent requests of any two users through the ledger
SpecScoped == InitLedger /\ [][NextScoped]_vars

-----------------------------------------------------------------------------
(* Registration and the calendar: AuthService.register stores              *)
(* addOneMonth(new Date()); the reset check later adds months to it.       *)

\* the years registrations are drawn from: a leap year, a common year, and
\* the turn into a century year that is not a leap year
DateYears == {2024, 2025, 2099, 2100}

\* the (year, month, day) triples a JavaScript Date can hold
IsCalendarDay(y, m, d) ==
    /\ m \in 0..11 /\ d >= 1
    /\ \/ d <= 28
       \/ d = 29 /\ (m # 1 \/ (y % 4 = 0 /\ (y % 100 # 0 \/ y % 400 = 0)))
       \/ d = 30 /\ m # 1
       \/ d = 31 /\ m \in {0, 2, 4, 6, 7, 9, 11}

DateInputs ==
    {Date(y, m, d, tod) : y \in DateYears, m \in 0..11, d \in 1..31, tod \in 0..1}
      \cap {x \in [year : DateYears, month : 0..11, day : 1..31, tod : 0..1] :
              IsCalendarDay(x.year, x.month, x.day)}

\* register: prisma.user.create({ data: { ..., nextQuotaResetDate: addOneMonth(new Date()) } })
Auth_register(id) ==
    /\ id \notin DOMAIN users
    /\ users' = [u \in DOMAIN users \cup {id} |->
                   IF u = id
                   THEN [monthlyUsage |-> 0, nextQuotaResetDate |-> addOneMonth(now),
                         maxStorageCapacity |-> MaxCapacity, createdAt |-> now]
                   ELSE users[u]]
    /\ UNCHANGED <<objects, task, files, nextId, history, now, unlinked>>

\* time passes until the reset instant of some user
Clock_reachReset ==
    /\ \E u \in DOMAIN users :
         /\ getTime(users[u].nextQuotaResetDate) > getTime(now)
         /\ users[u].nextQuotaResetDate.year \in DateYears
         /\ now' = users[u].nextQuotaResetDate
    /\ UNCHANGED <<objects, task, files, nextId, users, history, unlinked>>

InitDates ==
    /\ objects = [p \in ProviderNames |-> {}]
    /\ task = [t \in Tasks |-> IdleTask]
    /\ files = {}
    /\ nextId = 0
    /\ users = [u \in {} |-> 0]
    /\ history = {}
    /\ now \in DateInputs
    /\ unlinked = {}

NextDates ==
    \/ \E id \in {"u1", "u2"} : Auth_register(id)
    \/ Clock_reachReset
    \/ Users_resetMonthlyUsage

\* registrations at any calendar instant, followed by resets when they fall due
SpecDates == InitDates /\ [][NextDates]_vars

\* the longest stretch, in cycles, the service is taken to be away
MaxMissed == 3

RECURSIVE AddMonths(_, _)
\* addOneMonth applied k times
AddMonths(d, k) == IF k = 0 THEN d ELSE AddMonths(addOneMonth(d), k - 1)

\* time passes over cycle boundaries of some user without any call: the
\* clock stops on the day of the boundary j cycles ahead, at either time of day
Clock_skipCycles ==
    /\ \E u \in DOMAIN users, j \in 0..MaxMissed, tod \in 0..1 :
         LET d == AddMonths(users[u].nextQuotaResetDate, j)
         IN  /\ d.year \in DateYears
             /\ getTime(Date(d.year, d.month, d.day, tod)) > getTime(now)
             /\ now' = Date(d.year, d.month, d.day, tod)
    /\ UNCHANGED <<objects, task, files, nextId, users, history, unlinked>>

\* the instants a user of the rollover runs may have registered at
RolloverYears == {2024}

\* one user some way into the first cycle, with some bytes used; the row
\* either carries the reset date register gave it or is from before the
\* column existed
InitRollover ==
    /\ objects = [p \in ProviderNames |-> {}]
    /\ task = [t \in Tasks |-> IdleTask]
    /\ files = {}
    /\ nextId = 0
    /\ now \in {d \in DateInputs : d.year \in RolloverYears}
    /\ \E used \in 0..MaxCapacity, dated \in BOOLEAN :
         users = [u \in {"u1"} |->
                    [monthlyUsage |-> used,
                     nextQuotaResetDate |-> IF dated THEN addOneMonth(now) ELSE NullDate,
                     maxStorageCapacity |-> MaxCapacity,
                     createdAt |-> now]]
    /\ history = {}
    /\ unlinked = {}

NextRollover ==
    \/ Clock_skipCycles
    \/ Users_resetMonthlyUsage

\* the reset check after the service was away for any number of cycles
SpecRollover == InitRollover /\ [][NextRollover]_vars

-----------------------------------------------------------------------------
(* UsersService and StatsService called directly, one call at a time, as   *)
(* the unit tests call them: any user id, any size, any signed delta.      *)

\* the deltas updateUserStorageUsage is called with: sizes of uploads, their
\* negatives for deletes, and 0
Deltas == (0 - MaxSize)..MaxSize

\* the username column of a user's row
username(userId) ==
    IF userId = "u1" THEN "adminuser" ELSE IF userId = "u2" THEN "regularuser" ELSE "-"

\* the rows whose isAdmin column is true
AdminIds == {"u1"}

\* mutant: the missing row is passed over and the call returns
ThrowUserNotFound_Silent(tr) == Respond(tr, "ok")

\* if (!user) { throw new BadRequestException('User not found') }
ThrowUserNotFound(tr) == Respond(tr, "UserNotFound")

\* checkUserStorageQuota(userId, fileSize) from its call to its return
Users_checkUserStorageQuota(t) ==
    /\ Idle(t)
    /\ \E userId \in UserIds, fileSize \in Sizes :
       LET tr == [Arrived("checkQuota", userId, 0) EXCEPT !.size = fileSize]
       IN  IF userId \notin DOMAIN users
           THEN /\ task' = [task EXCEPT ![t] = ThrowUserNotFound(tr)]
                /\ UNCHANGED users
           ELSE /\ users' = QuotaTable(users, userId, now)
                /\ task' = [task EXCEPT ![t] =
                              Respond([tr EXCEPT !.eff = ResetEffects(users, userId, now)],
                                      IF checkUserStorageQuota(users, userId, fileSize, now)
                                      THEN "true" ELSE "false")]
    /\ UNCHANGED <<objects, files, nextId, history, now, unlinked>>

\* updateUserStorageUsage(userId, fileSize) from its call to its return
Users_updateUserStorageUsage(t) ==
    /\ Idle(t)
    /\ nextId < MaxCalls
    /\ nextId' = nextId + 1
    /\ \E userId \in UserIds, fileSize \in Deltas :
       LET tr == [Arrived("updateUsage", userId, 0) EXCEPT !.size = fileSize]
       IN  IF userId \notin DOMAIN users
           THEN /\ task' = [task EXCEPT ![t] = ThrowUserNotFound(tr)]
                /\ UNCHANGED <<users, history>>
           ELSE /\ users' = UsageTable(users, userId, fileSize, now)
                /\ history' = UpsertHistory(history, userId, fileSize, now)
                /\ task' = [task EXCEPT ![t] =
                              Respond([tr EXCEPT !.eff = ResetEffects(users, userId, now)
                                                         \cup {"usage.increment", "history"}],
                                      "ok")]
    /\ UNCHANGED <<objects, files, now, unlinked>>

\* where: date >= today, date < today + 24h, usageBytes > 0
StatsRows(h, n) == {r \in h : SameDay(r.date, n) /\ r.usageBytes > 0}

\* stats.map(stat => ({ username: stat.user.username, usageBytes: Number(stat.usageBytes) }))
StatOf(r) == [username |-> username(r.userId), usageBytes |-> r.usageBytes]

\* mutant: ascending
OrderedBy_Asc(s) == \A i \in 1..(Len(s) - 1) : s[i].usageBytes <= s[i + 1].usageBytes

\* orderBy: { usageBytes: 'desc' }; the order among equal values is the store's
OrderedBy(s) == \A i \in 1..(Len(s) - 1) : s[i].usageBytes >= s[i + 1].usageBytes

\* the sequences findMany may return for a set of rows
FindMany(rows) ==
    {s \in [1..Cardinality(rows) -> rows] :
        {s[i] : i \in 1..Cardinality(rows)} = rows /\ OrderedBy(s)}

\* StatsService.getDailyUsageStats(userId): isAdmin, then the query, then the map
Stats_getDailyUsageStats(t) ==
    /\ Idle(t)
    /\ \E userId \in UserIds :
       LET tr == Arrived("stats", userId, 0)
       IN  IF userId \notin DOMAIN users
           THEN task' = [task EXCEPT ![t] = Respond(tr, "UserNotFound")]
           ELSE IF userId \notin AdminIds
           THEN task' = [task EXCEPT ![t] = Respond(tr, "Forbidden")]
           ELSE \E s \in FindMany(StatsRows(history, now)) :
                  task' = [task EXCEPT ![t] =
                             Respond([tr EXCEPT !.stats = [i \in 1..Len(s) |-> StatOf(s[i])]],
                                     "ok")]
    /\ UNCHANGED <<objects, files, nextId, users, history, now, unlinked>>

UsersStep(t) ==
    \/ Users_checkUserStorageQuota(t)
    \/ Users_updateUserStorageUsage(t)
    \/ Stats_getDailyUsageStats(t)
    \/ Finish(t)

NextUsers ==
    \/ \E t \in OneTask : UsersStep(t)
    \/ Users_resetMonthlyUsage
    \/ Tick

\* the ledger and the statistics on their own
SpecUsers == Init /\ [][NextUsers]_vars

-----------------------------------------------------------------------------
(* Reading a call's log                                                    *)

Has(log, p, what) == \E i \in 1..Len(log) : log[i] = <<p, what>>

Count(log, p, what) == Cardinality({i \in 1..Len(log) : log[i] = <<p, what>>})

\* the provider was asked and did not serve: reported unavailable, or its call failed
PutFailedOn(log, p) == Has(log, p, "unavailable") \/ Has(log, p, "uploadFailed")

GetFailedOn(log, p) == Has(log, p, "unavailable") \/ Has(log, p, "downloadFailed")

PutDone(t) == task[t].sop = "put" /\ task[t].spc = "done"

GetDone(t) == task[t].sop = "get" /\ task[t].spc = "done"

-----------------------------------------------------------------------------
(* C1: put returns the result of the first provider, in list order, whose  *)
(* isAvailable() answered true and whose upload succeeded: every provider  *)
(* before it was asked and reported unavailable or failed its upload; and  *)
(* upload is called only on a provider whose isAvailable() answered true.  *)

C1_FirstAvailableProvider ==
    \A t \in Tasks :
      /\ task[t].sop = "put" =>
           \A p \in ProviderNames :
             Has(task[t].log, p, "upload") =>
               Has(task[t].log, p, "available") /\ ~Has(task[t].log, p, "unavailable")
      /\ (PutDone(t) /\ task[t].sres.kind = "ok") =>
           \E i \in 1..Len(providers) :
             /\ task[t].sres.provider = providers[i]
             /\ task[t].sres.key = task[t].key
             /\ Has(task[t].log, providers[i], "available")
             /\ Has(task[t].log, providers[i], "uploaded")
             /\ task[t].key \in objects[providers[i]]
             /\ \A j \in 1..(i - 1) : PutFailedOn(task[t].log, providers[j])
             /\ \A j \in (i + 1)..Len(providers) :
                  \A w \in {"available", "unavailable", "upload"} :
                    ~Has(task[t].log, providers[j], w)

\* the fallback of the e2e test: the first provider reports unavailable, the second serves
C1_Witness ==
    \E t \in Tasks :
      /\ PutDone(t) /\ task[t].sres.kind = "ok"
      /\ task[t].sres.provider = "gcp"
      /\ task[t].log = <<<<"aws", "unavailable">>, <<"gcp", "available">>,
                         <<"gcp", "upload">>, <<"gcp", "uploaded">>>>

-----------------------------------------------------------------------------
(* C3: within one put at most one upload is in flight at any time, the     *)
(* next provider is probed only when no upload is pending, and at most one *)
(* provider ends up having stored the bytes for that call.                 *)

C3_OneProviderAtATime ==
    \A t \in Tasks :
      task[t].sop = "put" =>
        /\ Cardinality(task[t].inflight) <= 1
        /\ task[t].spc \in {"probe", "start", "done"} => task[t].inflight = {}
        /\ Cardinality({p \in ProviderNames : Has(task[t].log, p, "uploaded")}) <= 1
        /\ \A p \in ProviderNames : Count(task[t].log, p, "upload") <= 1

\* the first upload failed, the second stored the bytes, nothing is pending
C3_Witness ==
    \E t \in Tasks :
      /\ PutDone(t)
      /\ Has(task[t].log, "aws", "uploadFailed")
      /\ Has(task[t].log, "gcp", "uploaded")
      /\ task[t].inflight = {}
      /\ task[t].key \in objects["gcp"]

-----------------------------------------------------------------------------
(* C2 as stated: when put fails because every provider is unavailable or   *)
(* fails, uploadFile creates no FileRecord and changes neither the user's  *)
(* usage nor any daily usage entry.                                        *)

C2_NoUsageChangeAtAll ==
    \A t \in Tasks :
      (task[t].fop = "upload" /\ task[t].sres.kind = "error") =>
        task[t].eff \cap {"file.create", "usage.reset", "usage.increment", "history"} = {}

(* C2, amended: when every provider was asked and reported unavailable or  *)
(* failed its upload, put fails with "All storage providers are            *)
(* unavailable"; uploadFile then answers 503, creates no FileRecord, does  *)
(* not charge the upload to the user's usage and writes no daily usage     *)
(* entry.  The only write to the user's row is the reset that the capacity *)
(* check performed before the put, when the reset instant was due.         *)

C2_AllProvidersUnavailable ==
    \A t \in Tasks :
      /\ (PutDone(t) /\ \A p \in ProviderNames : PutFailedOn(task[t].log, p)) =>
           /\ task[t].sres.kind = "error"
           /\ task[t].sres.err = "All storage providers are unavailable"
      /\ (PutDone(t) /\ task[t].sres.kind = "error") =>
           \A p \in ProviderNames : PutFailedOn(task[t].log, p)
      /\ (task[t].fop = "upload" /\ task[t].sres.kind = "error") =>
           /\ task[t].fpc \in {"put", "done"}
           /\ task[t].fpc = "done" => task[t].fres = "ServiceUnavailable"
           /\ task[t].eff \subseteq {"resetDate", "usage.reset"}
           /\ ~\E f \in files : f.id = task[t].fid \/ f.cloudPath = task[t].key
           /\ \A p \in ProviderNames : task[t].key \notin objects[p]

\* an upload answered 503 after one provider was unavailable and the other
\* failed; the capacity check before it had reset a non-zero usage
C2_Witness ==
    \E t \in Tasks :
      /\ task[t].fop = "upload" /\ task[t].fpc = "done"
      /\ task[t].fres = "ServiceUnavailable"
      /\ task[t].log = <<<<"aws", "unavailable">>, <<"gcp", "available">>,
                         <<"gcp", "upload">>, <<"gcp", "uploadFailed">>>>
      /\ "usage.reset" \in task[t].eff
      /\ users[task[t].user].monthlyUsage = 0
      /\ files # {}

-----------------------------------------------------------------------------
(* C4: in the revision with failover, a download that ends in an error has *)
(* asked every configured provider and each reported unavailable or failed *)
(* the download; so when the recorded provider cannot serve and another    *)
(* one can, the call returns that other provider's result.  A result comes *)
(* from a provider that holds the key, and when it is not the recorded     *)
(* provider, the recorded provider had been tried first and had failed.    *)

-----------------------------------------------------------------------------
(* C5: in the revision without failover, when the recorded provider        *)
(* reports unavailable or its download fails, the call is rejected with    *)
(* the 503 whose message promises the file by e-mail, and no other         *)
(* provider is asked, whether or not one holds the key.                    *)

-----------------------------------------------------------------------------
(* C6: the step of StorageService.deleteFile.  A provider string that      *)
(* names no configured adapter is rejected with "Provider ... not found"   *)
(* and nothing is called; otherwise delete is called on that adapter and   *)
(* no other, its boolean is the result, and the objects of every other     *)
(* provider are as before.                                                 *)

C6_DeleteNoFailover ==
    [][\A t \in Tasks :
         (task[t].sop = "del" /\ task[t].spc = "delete" /\ task'[t].spc = "done") =>
           LET p == getProviderByName(task[t].prov)
               key == task[t].key
           IN  IF p = "undefined"
               THEN /\ task'[t].sres.kind = "error"
                    /\ task'[t].sres.err = "Provider not found"
                    /\ task'[t].log = <<>>
                    /\ objects' = objects
               ELSE /\ task'[t].sres.kind = "ok"
                    /\ task'[t].log = <<<<p, "delete">>>>
                    /\ \A q \in ProviderNames \ {p} : objects'[q] = objects[q]
                    /\ objects'[p] \in {objects[p], objects[p] \ {key}}
                    /\ task'[t].sres.value => key \notin objects'[p]
                    /\ ~task'[t].sres.value => objects' = objects]_vars

\* gcp deleted its object and returned true; aws still holds the same key
C6_Witness ==
    \E t \in Tasks :
      /\ task[t].sop = "del" /\ task[t].spc = "done" /\ task[t].prov = "gcp"
      /\ task[t].sres.kind = "ok" /\ task[t].sres.value
      /\ task[t].key \notin objects["gcp"]
      /\ task[t].key \in objects["aws"]

-----------------------------------------------------------------------------
(* C7 as stated: in every reachable state every FileRecord names one       *)
(* configured provider and one key, and that provider holds an object      *)
(* under that key.                                                         *)

C7_NoDanglingRecords ==
    \A f \in files :
      /\ f.cloudProvider \in ProviderNames
      /\ f.cloudPath \in objects[f.cloudProvider]

(* C7, amended: every FileRecord names one configured provider and one     *)
(* key, no two records name the same key, and the provider holds an object *)
(* under that key unless a deleteFile on this record has already removed   *)
(* the object and the record's own removal has not happened yet or has     *)
(* failed.  An upload never leaves a record without its object.            *)

C7_NoDanglingExceptUnlinked ==
    /\ \A f \in files :
         /\ f.cloudProvider \in ProviderNames
         /\ f.cloudPath \in Keys
         /\ f.cloudPath \in objects[f.cloudProvider] \/ f.id \in unlinked
    /\ \A f, g \in files : f.cloudPath = g.cloudPath => f = g
    /\ \A t \in Tasks :
         (task[t].fop = "upload" /\ task[t].fpc \in {"record", "done"}
            /\ task[t].rec # NoRec) =>
           /\ task[t].rec \in files
           /\ task[t].rec.cloudPath \in objects[task[t].rec.cloudProvider]

\* one record written by an upload that fell back to gcp and whose object is
\* live, next to one record whose object a delete has removed
C7_Witness ==
    \E f, g \in files :
      /\ f.cloudProvider = "gcp" /\ f.cloudPath \in objects["gcp"]
      /\ f.cloudPath \notin objects["aws"]
      /\ g.id \in unlinked /\ g.cloudPath \notin objects[g.cloudProvider]

-----------------------------------------------------------------------------
(* C8 as stated: when the provider's delete call failed and the object is  *)
(* still stored, deleteFile fails as a whole: the FileRecord stays and the *)
(* owner's usage and daily usage entry are not adjusted.                   *)

C8_FailedDeleteKeepsRecord ==
    \A t \in Tasks :
      (/\ task[t].fop = "delete" /\ task[t].spc = "done"
       /\ task[t].sres.kind = "ok" /\ ~task[t].sres.value
       /\ task[t].rec.cloudPath \in objects[task[t].rec.cloudProvider]) =>
        /\ task[t].rec \in files
        /\ task[t].eff \cap {"file.delete", "usage.increment", "history"} = {}
        /\ task[t].fres # "true"

-----------------------------------------------------------------------------
(* C9: getFile, getFileForDownload and deleteFile on a file id that has no *)
(* record, or whose record belongs to another user, end at once with       *)
(* NotFound in both cases alike: no storage call is made, no record is     *)
(* deleted and no usage is written.                                        *)

C9_OwnershipIsolation ==
    \A t \in Tasks :
      (/\ task[t].fop \in {"getFile", "download", "delete"}
       /\ (task[t].rec = NoRec \/ task[t].rec.userId # task[t].user)) =>
        /\ task[t].fpc = "done"
        /\ task[t].fres = "NotFound"
        /\ task[t].sop = "none" /\ task[t].spc = "idle"
        /\ task[t].log = <<>>
        /\ task[t].sres = NoRes
        /\ task[t].eff = {}
        /\ task[t].rec # NoRec =>
             /\ task[t].rec \in files
             /\ task[t].rec.cloudPath \in objects[task[t].rec.cloudProvider]
                  \/ task[t].rec.id \in unlinked

\* a delete asked by a registered user who does not own the existing record
C9_Witness ==
    \E t \in Tasks :
      /\ task[t].fop = "delete" /\ task[t].fres = "NotFound"
      /\ task[t].rec \in files
      /\ task[t].user \in DOMAIN users
      /\ task[t].rec.userId \in DOMAIN users
      /\ task[t].rec.userId # task[t].user
      /\ task[t].rec.cloudPath \in objects[task[t].rec.cloudProvider]

-----------------------------------------------------------------------------
(* C10: the capacity check of an upload for a user whose reset instant is  *)
(* strictly in the future answers true exactly when the stored usage plus  *)
(* the file size is at most the user's capacity, and writes nothing.       *)

C10_QuotaBoundaryInclusive ==
    [][\A t \in Tasks :
         (/\ task[t].fpc = "idle" /\ task'[t].fop = "upload"
          /\ task'[t].user \in DOMAIN users
          /\ users[task'[t].user].nextQuotaResetDate # NullDate
          /\ getTime(users[task'[t].user].nextQuotaResetDate) > getTime(now)) =>
           LET u == users[task'[t].user]
           IN  /\ task'[t].quota \in {"yes", "no"}
               /\ task'[t].quota = "yes" <=>
                    u.monthlyUsage + task'[t].size <= u.maxStorageCapacity
               /\ task'[t].quota = "no" =>
                    task'[t].fpc = "done" /\ task'[t].fres = "QuotaExceeded"
               /\ users' = users
               /\ task'[t].eff = {}]_vars

\* the check has just passed with usage + size equal to the capacity
C10_Witness ==
    \E t \in Tasks :
      /\ task[t].fop = "upload" /\ task[t].fpc = "put" /\ task[t].log = <<>>
      /\ task[t].spc = "probe" /\ task[t].idx = 1
      /\ task[t].quota = "yes" /\ task[t].eff = {}
      /\ users[task[t].user].monthlyUsage > 0
      /\ users[task[t].user].monthlyUsage + task[t].size
           = users[task[t].user].maxStorageCapacity

-----------------------------------------------------------------------------
(* C11: the two writing steps of a successful upload.  The create step     *)
(* adds exactly one FileRecord, carrying the provider and the key that put *)
(* returned.  The usage step, when no reset is due, adds the file size to  *)
(* the user's usage and to the user's entry of today, which is created     *)
(* with that value when there was none; nothing else is written.           *)

C11_UploadRecordsExactly ==
    [][\A t \in Tasks :
         /\ (task[t].fop = "upload" /\ task[t].fpc = "put" /\ task'[t].fpc = "record") =>
              /\ task[t].sres.kind = "ok"
              /\ ~\E f \in files : f.id = task[t].fid
              /\ files' = files \cup {[id |-> task[t].fid, userId |-> task[t].user,
                                       size |-> task[t].size,
                                       cloudProvider |-> task[t].sres.provider,
                                       cloudPath |-> task[t].sres.key,
                                       uploadedAt |-> now]}
              /\ task[t].sres.key \in objects[task[t].sres.provider]
              /\ users' = users /\ history' = history
         /\ (/\ task[t].fop = "upload" /\ task[t].fpc = "record" /\ task'[t].fpc = "done"
             /\ ~ResetDue(users[task[t].user].nextQuotaResetDate, now)) =>
              LET u == task[t].user
                  n == task[t].size
                  today == {r \in history : r.userId = u /\ SameDay(r.date, now)}
              IN  /\ task'[t].fres = "ok"
                  /\ users' = [users EXCEPT ![u].monthlyUsage = @ + n]
                  /\ files' = files
                  /\ IF today = {}
                     THEN \E r \in history' :
                            /\ history' = history \cup {r} /\ r \notin history
                            /\ r.userId = u /\ SameDay(r.date, now) /\ r.usageBytes = n
                     ELSE \E r \in today :
                            history' = (history \ {r})
                                         \cup {[r EXCEPT !.usageBytes = r.usageBytes + n]}]_vars

\* a second upload of the day has been recorded: the record names gcp, the
\* usage and today's entry both hold more than this file's size
C11_Witness ==
    \E t \in Tasks :
      /\ task[t].fop = "upload" /\ task[t].fpc = "done" /\ task[t].fres = "ok"
      /\ task[t].eff = {"file.create", "usage.increment", "history"}
      /\ task[t].rec \in files /\ task[t].rec.cloudProvider = "gcp"
      /\ users[task[t].user].monthlyUsage > task[t].size
      /\ \E r \in history :
           /\ r.userId = task[t].user /\ SameDay(r.date, now)
           /\ r.usageBytes = users[task[t].user].monthlyUsage

-----------------------------------------------------------------------------
(* C12 as stated: an upload rejected with QuotaExceeded has attempted no   *)
(* provider upload, created no FileRecord and left the user's usage and    *)
(* the daily entries unchanged.                                            *)

C12_RejectionWritesNothing ==
    \A t \in Tasks :
      (task[t].fop = "upload" /\ task[t].fres = "QuotaExceeded") =>
        /\ task[t].log = <<>>
        /\ task[t].eff \cap {"file.create", "usage.reset", "usage.increment", "history"} = {}

(* C12, amended: the check step of an upload whose size does not fit (the  *)
(* usage left after a due reset, plus the size, exceeds the capacity) ends *)
(* the request with QuotaExceeded: no provider is asked, no object stored, *)
(* no FileRecord and no daily entry written.  The user's row is written    *)
(* only when the reset instant was due: usage 0 and a later reset instant. *)

C12_QuotaExceededNoUpload ==
    [][\A t \in Tasks :
         (/\ task[t].fpc = "idle" /\ task'[t].fop = "upload"
          /\ task'[t].user \in DOMAIN users
          /\ LET u == users[task'[t].user]
             IN  (IF ResetDue(u.nextQuotaResetDate, now) THEN 0 ELSE u.monthlyUsage)
                   + task'[t].size > u.maxStorageCapacity) =>
           LET id == task'[t].user
               u == users[id]
           IN  /\ task'[t].fpc = "done" /\ task'[t].fres = "QuotaExceeded"
               /\ task'[t].quota = "no"
               /\ task'[t].sop = "none" /\ task'[t].log = <<>> /\ task'[t].rec = NoRec
               /\ objects' = objects /\ files' = files /\ history' = history
               /\ nextId' = nextId
               /\ \A o \in DOMAIN users \ {id} : users'[o] = users[o]
               /\ IF ResetDue(u.nextQuotaResetDate, now)
                  THEN /\ users'[id].monthlyUsage = 0
                       /\ getTime(users'[id].nextQuotaResetDate) > getTime(now)
                       /\ users'[id].maxStorageCapacity = u.maxStorageCapacity
                       /\ "resetDate" \in task'[t].eff
                  ELSE users' = users /\ task'[t].eff = {}]_vars

\* a rejected upload that would have fitted but for the usage already recorded
C12_Witness ==
    \E t \in Tasks :
      /\ task[t].fop = "upload" /\ task[t].fpc = "done"
      /\ task[t].fres = "QuotaExceeded" /\ task[t].eff = {}
      /\ task[t].size <= users[task[t].user].maxStorageCapacity
      /\ users[task[t].user].monthlyUsage > 0
      /\ users[task[t].user].monthlyUsage + task[t].size
           > users[task[t].user].maxStorageCapacity
      /\ files # {}

-----------------------------------------------------------------------------
(* C13: upload then delete is a round trip.  As long as no reset has been  *)
(* due since registration, a user's usage, and the user's entry of the     *)
(* day, equal the total size of the user's FileRecords, so removing a      *)
(* record by deleteFile brings the usage back to what it was before that   *)
(* file was uploaded.  After a delete that returned true the record is     *)
(* gone, and getFile on an id without a record answers NotFound.           *)

RECURSIVE SumSizes(_)
SumSizes(S) ==
    IF S = {} THEN 0
    ELSE LET f == CHOOSE x \in S : TRUE
         IN  f.size + SumSizes(S \ {f})

\* the size a request has written to the catalog and not yet to the ledger
Pending(t, u) ==
    IF task[t].user = u /\ task[t].fpc = "record"
    THEN IF task[t].fop = "upload" THEN 0 - task[t].rec.size ELSE task[t].rec.size
    ELSE 0

-----------------------------------------------------------------------------
(* C14 as stated: in every reachable state each user's usage is >= 0.      *)

C14_UsageNonNegative ==
    \A u \in DOMAIN users : users[u].monthlyUsage >= 0

(* C14, amended: each user's usage is >= 0 as long as no reset has been    *)
(* due.  A reset sets the usage to 0 while the records of the earlier      *)
(* cycle remain, and deleting one of them then takes the usage below 0; it *)
(* never falls below minus the total size of the records deleted so far.   *)

C14_UsageNonNegativeUntilReset ==
    \A u \in DOMAIN users :
      /\ now = Instants[1] => users[u].monthlyUsage >= 0
      /\ users[u].monthlyUsage >= 0 - (nextId - Cardinality(files)) * MaxSize

\* a file uploaded before the reset was deleted after it: the usage is negative
C14_Witness ==
    \E t \in Tasks :
      /\ task[t].fop = "delete" /\ task[t].fpc = "done" /\ task[t].fres = "true"
      /\ "usage.reset" \in task[t].eff
      /\ now = Instants[2]
      /\ users[task[t].user].monthlyUsage = 0 - task[t].rec.size
      /\ users[task[t].user].monthlyUsage < 0

-----------------------------------------------------------------------------
(* C15: every step that runs the reset check for a user (the capacity      *)
(* check of an upload, the usage update of an upload or a delete,          *)
(* resetMonthlyUsage) leaves that user with a reset instant that is set    *)
(* and strictly later than the time of the check; a user without a reset   *)
(* instant is treated as due and gets one.                                 *)

\* the step runs checkAndResetQuotaIfNeeded for user u
ChecksReset(u) ==
    \/ \E t \in Tasks :
         \/ task[t].fpc = "idle" /\ task'[t].fop = "upload" /\ task'[t].user = u
         \/ task[t].fpc = "record" /\ task'[t].fpc = "done" /\ task[t].user = u
    \/ task' = task /\ now' = now /\ users' # users

C15_ResetInstantInFuture ==
    [][\A u \in DOMAIN users :
         ChecksReset(u) =>
           /\ users'[u].nextQuotaResetDate # NullDate
           /\ getTime(users'[u].nextQuotaResetDate) > getTime(now)
           /\ users[u].nextQuotaResetDate = NullDate => users'[u].monthlyUsage = 0
           /\ (users[u].nextQuotaResetDate # NullDate
                 /\ getTime(users[u].nextQuotaResetDate) > getTime(now)) =>
                users'[u].nextQuotaResetDate = users[u].nextQuotaResetDate]_vars

\* the capacity check of an upload has given a user without a reset instant
\* one in the future, and moved another user's instant over two missed cycles
C15_Witness ==
    \E t \in Tasks :
      /\ task[t].fop = "upload" /\ task[t].user = "u2" /\ "resetDate" \in task[t].eff
      /\ now = Instants[2]
      /\ users["u2"].nextQuotaResetDate = addOneMonth(Instants[2])
      /\ users["u1"].nextQuotaResetDate = Date(2024, 3, 29, 1)

-----------------------------------------------------------------------------
(* C16: rollover is idempotent.  Applied twice at the same instant to any  *)
(* reachable user row, the second application changes nothing; and after   *)
(* every step that ran the reset check for a user, one more reset check at *)
(* that instant changes neither the usage nor the reset instant.           *)

C16_RolloverIdempotent ==
    [][\A u \in DOMAIN users :
         /\ LET once == checkAndResetQuotaIfNeeded(users, u, users[u].nextQuotaResetDate, now)
            IN  checkAndResetQuotaIfNeeded(once, u, once[u].nextQuotaResetDate, now) = once
         /\ ChecksReset(u) =>
              checkAndResetQuotaIfNeeded(users', u, users'[u].nextQuotaResetDate, now') = users']_vars

\* a reset has just set a non-zero usage to 0 and moved the instant past now;
\* it is no longer due
C16_Witness ==
    \E t \in Tasks :
      /\ task[t].fop = "upload" /\ task[t].fpc = "put" /\ task[t].log = <<>>
      /\ task[t].eff = {"resetDate", "usage.reset"}
      /\ users[task[t].user].monthlyUsage = 0
      /\ ~ResetDue(users[task[t].user].nextQuotaResetDate, now)
      /\ checkAndResetQuotaIfNeeded(users, task[t].user,
                                    users[task[t].user].nextQuotaResetDate, now) = users

-----------------------------------------------------------------------------
(* C17: addOneMonth(d), as applied by register to the current time and by  *)
(* the reset check to a reset instant that has just been reached, yields   *)
(* the same time of day in the month after d (January of the next year     *)
(* after December), on the same day of the month or, when that month is    *)
(* shorter, on its last day: Jan 31 2025 gives Feb 28 2025 and Jan 31 2024 *)
(* gives Feb 29 2024.  The result is never in the month after that.        *)

IsNextMonthOf(d, r) ==
    /\ r.tod = d.tod
    /\ r.month = (IF d.month = 11 THEN 0 ELSE d.month + 1)
    /\ r.year = (IF d.month = 11 THEN d.year + 1 ELSE d.year)
    /\ IsCalendarDay(r.year, r.month, r.day)
    /\ r.day <= d.day
    /\ r.day < d.day => ~IsCalendarDay(r.year, r.month, r.day + 1)
    /\ (d.year = 2025 /\ d.month = 0 /\ d.day = 31) => r = Date(2025, 1, 28, d.tod)
    /\ (d.year = 2024 /\ d.month = 0 /\ d.day = 31) => r = Date(2024, 1, 29, d.tod)

C17_AddOneMonthClamps ==
    [][\A u \in {"u1", "u2"} :
         /\ (u \notin DOMAIN users /\ u \in DOMAIN users') =>
              IsNextMonthOf(now, users'[u].nextQuotaResetDate)
         /\ (/\ u \in DOMAIN users /\ u \in DOMAIN users'
             /\ users[u].nextQuotaResetDate = now
             /\ users'[u] # users[u]) =>
              IsNextMonthOf(users[u].nextQuotaResetDate, users'[u].nextQuotaResetDate)]_vars

\* registered on Jan 31 2025: the first reset falls on Feb 28 2025, same time of day
C17_Witness ==
    /\ now = Date(2025, 0, 31, 1)
    /\ "u1" \in DOMAIN users
    /\ users["u1"].nextQuotaResetDate = Date(2025, 1, 28, 1)

-----------------------------------------------------------------------------
(* Reading concurrent requests                                             *)

RECURSIVE SumTaskSizes(_)
SumTaskSizes(S) ==
    IF S = {} THEN 0
    ELSE LET t == CHOOSE x \in S : TRUE
         IN  task[t].size + SumTaskSizes(S \ {t})

\* the requests of user u that passed the capacity check
Admitted(u) == {t \in Tasks : task[t].user = u /\ task[t].quota = "yes"}

\* the requests of user u whose increment was made in the user's current cycle
CountedNow(u) ==
    {t \in Tasks : /\ task[t].user = u
                   /\ "usage.increment" \in task[t].eff
                   /\ task[t].cyc = users[u].nextQuotaResetDate}

AllDone == \A t \in Tasks : task[t].fpc \in {"idle", "done"}

-----------------------------------------------------------------------------
(* C18 as stated: concurrent rollovers of one user lose no increment: the  *)
(* usage holds every delta that was recorded after the reset that opened   *)
(* the user's current cycle.                                               *)

C18_NoLostIncrement ==
    \A u \in DOMAIN users :
      users[u].monthlyUsage = SumTaskSizes(CountedNow(u))

-----------------------------------------------------------------------------
(* C19 as stated: once all concurrent uploads of a user are complete, the  *)
(* usage exceeds the capacity by at most the size of one uploaded file.    *)

C19_OvershootOneFile ==
    \A u \in DOMAIN users :
      AllDone =>
        \/ users[u].monthlyUsage <= users[u].maxStorageCapacity
        \/ \E t \in Admitted(u) :
             users[u].monthlyUsage <= users[u].maxStorageCapacity + task[t].size

(* C19, amended: the usage never exceeds the capacity by more than the     *)
(* total size of the uploads that passed the check, less one of them: one  *)
(* file's worth for two concurrent uploads, two files' worth for three.    *)

C19_OvershootAllButOne ==
    \A u \in DOMAIN users :
      /\ Admitted(u) = {} => users[u].monthlyUsage <= users[u].maxStorageCapacity
      /\ \A t \in Admitted(u) : task[t].size <= users[u].maxStorageCapacity
      /\ Admitted(u) # {} =>
           \E t \in Admitted(u) :
             users[u].monthlyUsage
               <= users[u].maxStorageCapacity + SumTaskSizes(Admitted(u) \ {t})
      /\ Cardinality(Admitted(u)) = 2 =>
           \E t \in Admitted(u) :
             users[u].monthlyUsage <= users[u].maxStorageCapacity + task[t].size

\* three uploads passed the check together and all were recorded: the usage
\* is two files' worth above the capacity
C19_Witness ==
    \E u \in DOMAIN users :
      /\ AllDone /\ Admitted(u) = Tasks
      /\ \A t \in Tasks : task[t].fres = "ok"
      /\ users[u].monthlyUsage = SumTaskSizes(Tasks)
      /\ \A t \in Tasks :
           users[u].monthlyUsage
             = users[u].maxStorageCapacity + SumTaskSizes(Tasks \ {t})

-----------------------------------------------------------------------------
(* C20: there is at most one daily entry per user and day after every      *)
(* step, also when usage updates of one user run concurrently.  findFirst  *)
(* returns the entry of the day when there is one, and the update then     *)
(* adds to that entry instead of creating another.                         *)

OneEntryPerDay(h) ==
    \A r1, r2 \in h : (r1.userId = r2.userId /\ r1.date = r2.date) => r1 = r2

-----------------------------------------------------------------------------
(* C21 as stated: in every reachable state, after any uploads and deletes  *)
(* on any days, no row of the UsageHistory table has a negative byte total. *)

C21_DailyEntryNonNegative ==
    \A r \in history : r.usageBytes >= 0

-----------------------------------------------------------------------------
RECURSIVE SumBytes(_)
SumBytes(S) ==
    IF S = {} THEN 0
    ELSE LET r == CHOOSE x \in S : TRUE
         IN  r.usageBytes + SumBytes(S \ {r})

\* the rows of a user dated on the day of n
RowsOn(h, u, n) ==
    {r \in h : r.userId = u /\ r.date.year = n.year /\ r.date.month = n.month
                            /\ r.date.day = n.day}

(* C22: a call updateUserStorageUsage(user, d) that returns leaves the     *)
(* user's usage at d if a reset was due and at the old usage + d if not,   *)
(* for every d from -MaxSize to MaxSize, with no floor at 0; the total of  *)
(* the user's entries of today changes by d, and no other row and no other *)
(* user changes.                                                           *)

C22_UpdateAddsDelta ==
    [][\A t \in OneTask :
         (Idle(t) /\ task'[t].fop = "updateUsage" /\ task'[t].fres = "ok") =>
            LET u == task'[t].user
                d == task'[t].size
                due == \/ users[u].nextQuotaResetDate = NullDate
                       \/ getTime(users[u].nextQuotaResetDate) <= getTime(now)
                base == IF due THEN 0 ELSE users[u].monthlyUsage
            IN  /\ users'[u].monthlyUsage = base + d
                /\ SumBytes(RowsOn(history', u, now)) = SumBytes(RowsOn(history, u, now)) + d
                /\ history' \ RowsOn(history', u, now) = history \ RowsOn(history, u, now)
                /\ \A o \in DOMAIN users \ {u} : users'[o] = users[o]]_vars

\* a negative delta was applied right after a reset: usage and today's entry
\* are both below 0
C22_Witness ==
    \E t \in OneTask :
      /\ task[t].fop = "updateUsage" /\ task[t].fres = "ok"
      /\ task[t].size < 0
      /\ "usage.reset" \in task[t].eff
      /\ users[task[t].user].monthlyUsage = task[t].size
      /\ \E r \in history :
           /\ r.userId = task[t].user /\ r.date = StartOfDay(now)
           /\ r.usageBytes = task[t].size

-----------------------------------------------------------------------------
(* C23 as stated, last part: no step of an upload before its usage update  *)
(* changes the user's usage.                                               *)

C23_NoUsageChangeBeforeUpdate ==
    [][\A t \in OneTask :
         (/\ task'[t].fop = "upload"
          /\ task'[t].user \in DOMAIN users
          /\ "usage.increment" \notin task'[t].eff)
            => users'[task'[t].user].monthlyUsage = users[task'[t].user].monthlyUsage]_vars

(* C23, amended: the capacity check has answered yes before any provider   *)
(* call of an upload; the step that increments the usage for an upload     *)
(* starts in a state where the FileRecord of that upload is in the catalog *)
(* and its object is held by the recorded provider; and a step of an       *)
(* upload before its usage update leaves the usage unchanged, except that  *)
(* the capacity check sets it to 0 when a reset is due.                    *)

C23_UploadStepOrdering ==
    [][\A t \in OneTask :
         /\ (task'[t].fop = "upload" /\ task'[t].sop # "none") => task'[t].quota = "yes"
         /\ (/\ task'[t].fop = "upload"
             /\ "usage.increment" \in task'[t].eff
             /\ "usage.increment" \notin task[t].eff)
               => /\ task[t].sres.kind = "ok"
                  /\ task[t].rec \in files
                  /\ task[t].rec.id = task[t].fid
                  /\ task[t].rec.userId = task[t].user
                  /\ task[t].rec.cloudProvider \in ProviderNames
                  /\ task[t].rec.cloudPath \in objects[task[t].rec.cloudProvider]
         /\ (/\ task'[t].fop = "upload"
             /\ task'[t].user \in DOMAIN users
             /\ "usage.increment" \notin task'[t].eff)
               => LET u == task'[t].user
                      due == \/ users[u].nextQuotaResetDate = NullDate
                             \/ getTime(users[u].nextQuotaResetDate) <= getTime(now)
                  IN  \/ users'[u].monthlyUsage = users[u].monthlyUsage
                      \/ /\ Idle(t) /\ due
                         /\ users'[u].monthlyUsage = 0]_vars

\* an upload stands between the catalog write and the usage update: object
\* and record exist, the check has reset the usage, the size is not yet added
C23_Witness ==
    \E t \in OneTask :
      /\ task[t].fop = "upload" /\ task[t].fpc = "record"
      /\ task[t].quota = "yes"
      /\ task[t].rec \in files
      /\ task[t].rec.cloudPath \in objects[task[t].rec.cloudProvider]
      /\ "usage.reset" \in task[t].eff
      /\ "usage.increment" \notin task[t].eff
      /\ users[task[t].user].monthlyUsage = 0

-----------------------------------------------------------------------------
(* C24: a put, and a get of the revision with failover, ends either with a *)
(* result or with the 503 thrown after the loop; no other error leaves the *)
(* call, none is raised while the call is running, and when the 503 is     *)
(* raised every configured provider was reported unavailable or failed its *)
(* upload or download in that call.                                        *)

-----------------------------------------------------------------------------
\* the number of times a call has asked provider p whether it is available
Attempts(log, p) == Count(log, p, "available") + Count(log, p, "unavailable")

(* C25 as stated: within one put, and one get of the revision with         *)
(* failover, every configured provider is asked at most once; in a get     *)
(* whose provider id resolves to an adapter that adapter is asked first    *)
(* and is not asked again by the failover loop.                            *)

C25_EachProviderOnce ==
    \A t \in OneTask :
      (task[t].sop = "put" \/ (task[t].sop = "get" /\ task[t].rev = "failover")) =>
         /\ \A p \in ProviderNames : Attempts(task[t].log, p) <= 1
         /\ (/\ task[t].sop = "get"
             /\ getProviderByName(task[t].prov) # "undefined"
             /\ task[t].log # <<>>)
               => task[t].log[1][1] = getProviderByName(task[t].prov)

-----------------------------------------------------------------------------
(* C26 as stated: when an adapter's delete returns false, the key was      *)
(* absent at that provider when the delete was called (a backend that does *)
(* not answer makes the delete fail, not return a boolean).                *)

C26_DeleteFalseOnlyIfAbsent ==
    [][\A t \in OneTask :
         (/\ task[t].sop = "del" /\ task[t].spc = "delete"
          /\ task'[t].spc = "done"
          /\ task'[t].sres.kind = "ok"
          /\ task'[t].sres.value = FALSE)
            => task[t].key \notin objects[DelTarget(task[t].prov)]]_vars

-----------------------------------------------------------------------------
(* C27: checkUserStorageQuota and updateUserStorageUsage called with a     *)
(* user id that has no row fail with UserNotFound and leave the User table *)
(* (rows, usage, reset dates) and the UsageHistory table as they were; a   *)
(* call for an id that has a row does not fail so.                         *)

C27_UnknownUserWritesNothing ==
    [][\A t \in OneTask :
         (Idle(t) /\ task'[t].fop \in {"checkQuota", "updateUsage"}) =>
            IF task'[t].user \notin DOMAIN users
            THEN /\ task'[t].fres = "UserNotFound"
                 /\ task'[t].eff = {}
                 /\ users' = users
                 /\ history' = history
            ELSE task'[t].fres # "UserNotFound"]_vars

\* updateUserStorageUsage was called for the id without a row, on the later
\* day, after other users had usage and entries: it failed
C27_Witness ==
    \E t \in OneTask :
      /\ task[t].fop = "updateUsage" /\ task[t].fres = "UserNotFound"
      /\ task[t].user \notin DOMAIN users
      /\ task[t].size # 0
      /\ now = Instants[2]
      /\ history # {}
      /\ \A r \in history : r.userId \in DOMAIN users

-----------------------------------------------------------------------------
(* C28: a call of checkUserStorageQuota for a user whose reset instant is  *)
(* still in the future changes nothing: the User table, the UsageHistory   *)
(* table, the File table and the providers' objects are as before, and the *)
(* answer is usage + size <= capacity on the stored usage.                 *)

C28_CheckIsPure ==
    [][\A t \in OneTask :
         (/\ Idle(t) /\ task'[t].fop = "checkQuota"
          /\ task'[t].user \in DOMAIN users
          /\ users[task'[t].user].nextQuotaResetDate # NullDate
          /\ getTime(users[task'[t].user].nextQuotaResetDate) > getTime(now))
            => /\ users' = users
               /\ history' = history
               /\ files' = files
               /\ objects' = objects
               /\ task'[t].eff = {}
               /\ task'[t].fres =
                    IF users[task'[t].user].monthlyUsage + task'[t].size
                         <= users[task'[t].user].maxStorageCapacity
                    THEN "true" ELSE "false"]_vars

\* the check answered no for a user with usage on record and no reset due
C28_Witness ==
    \E t \in OneTask :
      /\ task[t].fop = "checkQuota" /\ task[t].fres = "false"
      /\ task[t].eff = {}
      /\ users[task[t].user].monthlyUsage > 0
      /\ users[task[t].user].monthlyUsage + task[t].size
           > users[task[t].user].maxStorageCapacity
      /\ getTime(users[task[t].user].nextQuotaResetDate) > getTime(now)
      /\ \E r \in history : r.userId = task[t].user /\ r.usageBytes > 0

-----------------------------------------------------------------------------
(* C29: a getDailyUsageStats call by an admin returns one item for each    *)
(* UsageHistory row that is dated today and has usageBytes > 0, and        *)
(* nothing else: rows of other days and rows with usageBytes <= 0 are left *)
(* out; each item carries the username of the row's user and the row's     *)
(* byte count, and the items are in descending order of usageBytes.        *)

C29_DailyStatsExact ==
    [][\A t \in OneTask :
         (Idle(t) /\ task'[t].fop = "stats" /\ task'[t].fres = "ok") =>
            LET s == task'[t].stats
                today == {r \in history :
                            /\ r.date.year = now.year /\ r.date.month = now.month
                            /\ r.date.day = now.day
                            /\ r.usageBytes > 0}
            IN  /\ Len(s) = Cardinality(today)
                /\ {s[i] : i \in 1..Len(s)} =
                     {[username |-> username(r.userId), usageBytes |-> r.usageBytes] :
                        r \in today}
                /\ \A i \in 1..Len(s) : s[i].usageBytes > 0
                /\ \A i \in 1..(Len(s) - 1) : s[i].usageBytes >= s[i + 1].usageBytes]_vars

\* two users have entries today, the larger is listed first, and an entry
\* of the earlier day is not listed
C29_Witness ==
    \E t \in OneTask :
      /\ task[t].fop = "stats" /\ task[t].fres = "ok"
      /\ Len(task[t].stats) = 2
      /\ task[t].stats[1].usageBytes > task[t].stats[2].usageBytes
      /\ task[t].stats[1].username # task[t].stats[2].username
      /\ now = Instants[2]
      /\ \E r \in history : r.date = StartOfDay(Instants[1]) /\ r.usageBytes > 0
      /\ Cardinality(history) = 3

-----------------------------------------------------------------------------
\* the daily entries of a user
EntriesOf(h, u) == {r \in h : r.userId = u}

\* a step of a request changes no row and no entry of another user
StepTouchesOwnUserOnly ==
    \A t \in TwoTasks :
       task'[t] # task[t] =>
          \A o \in DOMAIN users \ {task'[t].user} :
             /\ users'[o] = users[o]
             /\ EntriesOf(history', o) = EntriesOf(history, o)

\* a request that has started and not answered has a step it can take
NeverWaits ==
    \A t \in TwoTasks :
       task[t].fpc \notin {"idle", "done"} => ENABLED RequestStep(t)

(* C30: with two requests in flight, every step of a request made for user *)
(* u leaves the row (usage, reset instant) and the daily entries of every  *)
(* other user as they were; and a request that has started and not yet     *)
(* answered can always take its next step, whatever the other request, of  *)
(* the same or of another user, is doing.                                  *)

C30_QuotaStateScopedToUser ==
    []NeverWaits /\ [][StepTouchesOwnUserOnly]_vars

\* a request of one user has written usage and an entry while a request of
\* the other user stands between its capacity check and its usage update
C30_Witness ==
    \E t, o \in TwoTasks :
      /\ task[t].user # task[o].user
      /\ task[t].user \in DOMAIN users /\ task[o].user \in DOMAIN users
      /\ task[t].fpc = "done" /\ task[t].fres = "ok"
      /\ users[task[t].user].monthlyUsage # 0
      /\ EntriesOf(history, task[t].user) # {}
      /\ task[o].fpc = "usage.find"
      /\ "resetDate" \in task[o].eff
      /\ users[task[o].user].monthlyUsage = 0
      /\ EntriesOf(history, task[o].user) = {}

-----------------------------------------------------------------------------
(* C31 as stated: every put and every get that has been entered eventually *)
(* returns, with a result or with the 503, also when a provider call never *)
(* responds.                                                               *)

C31_PutGetReturns ==
    \A t \in OneTask :
       (task[t].sop \in {"put", "get"}) ~> (task[t].spc = "done")

-----------------------------------------------------------------------------
(* C32: a File row is written only by a step that follows a put which      *)
(* returned a result; the row's cloudProvider is a provider whose upload   *)
(* succeeded in that put and which holds the object under the row's        *)
(* cloudPath (the second provider when the first did not serve); and as    *)
(* long as a row with a given id exists it is the same row, whatever       *)
(* downloads, with or without failover, have run in between.               *)

C32_RecordAfterUploadImmutable ==
    [][/\ \A r \in files' \ files :
            \E t \in OneTask :
               /\ task[t].fop = "upload" /\ task[t].spc = "done"
               /\ task[t].sres.kind = "ok"
               /\ r.id = task[t].fid /\ r.userId = task[t].user
               /\ r.cloudPath = task[t].key
               /\ r.cloudProvider \in ProviderNames
               /\ Has(task[t].log, r.cloudProvider, "uploaded")
               /\ \A p \in ProviderNames \ {r.cloudProvider} :
                     ~Has(task[t].log, p, "uploaded")
               /\ r.cloudPath \in objects[r.cloudProvider]
       /\ \A f \in files :
            (\E g \in files' : g.id = f.id) => f \in files']_vars

\* a file stored on the second provider, because the first did not serve,
\* is still recorded there after a download that went through the failover
\* loop
C32_Witness ==
    \E t \in OneTask, f \in files :
      /\ f.cloudProvider = providers[2]
      /\ f.cloudPath \in objects[providers[2]]
      /\ f.cloudPath \notin objects[providers[1]]
      /\ task[t].fop = "download" /\ task[t].fpc = "done"
      /\ task[t].rec = f /\ task[t].rev = "failover"
      /\ task[t].phase = "others"
      /\ Has(task[t].log, providers[1], "unavailable")

-----------------------------------------------------------------------------
(* C33: for a user whose reset instant is unset or not after the current   *)
(* time, a call checkUserStorageQuota(user, n) answers n <= capacity       *)
(* whatever usage the row held, and a call updateUserStorageUsage(user, d) *)
(* leaves the usage at exactly d; in both cases the stored reset instant   *)
(* is after the current time when the call returns.                        *)

C33_RolloverObservedFirst ==
    [][\A t \in OneTask :
         (/\ Idle(t) /\ task'[t].fop \in {"checkQuota", "updateUsage"}
          /\ task'[t].user \in DOMAIN users
          /\ \/ users[task'[t].user].nextQuotaResetDate = NullDate
             \/ getTime(users[task'[t].user].nextQuotaResetDate) <= getTime(now))
            => LET u == task'[t].user
               IN  /\ getTime(users'[u].nextQuotaResetDate) > getTime(now)
                   /\ task'[t].fop = "checkQuota" =>
                        /\ task'[t].fres =
                             IF task'[t].size <= users[u].maxStorageCapacity
                             THEN "true" ELSE "false"
                        /\ users'[u].monthlyUsage = 0
                   /\ task'[t].fop = "updateUsage" =>
                        users'[u].monthlyUsage = task'[t].size]_vars

\* the check admitted a file as large as the whole capacity for a user whose
\* row held usage from the cycle that had ended
C33_Witness ==
    \E t \in OneTask :
      /\ task[t].fop = "checkQuota" /\ task[t].fres = "true"
      /\ "usage.reset" \in task[t].eff
      /\ task[t].size = users[task[t].user].maxStorageCapacity
      /\ users[task[t].user].monthlyUsage = 0
      /\ getTime(users[task[t].user].nextQuotaResetDate) > getTime(now)

-----------------------------------------------------------------------------
(* The rollover after missed cycles                                         *)

\* the elements of old, old + 1 month, ... a rollover may have to pass
MaxSteps == MaxMissed + 2

\* d is the first element of base, base + 1 month, ... that is after n
FirstAfter(base, n, d) ==
    \E k \in 0..MaxSteps :
      /\ d = AddMonths(base, k)
      /\ getTime(d) > getTime(n)
      /\ \A j \in 0..(k - 1) : getTime(AddMonths(base, j)) <= getTime(n)

(* C34: when the reset check finds a rollover due, however many cycle       *)
(* boundaries have passed, it ends with the usage at 0 and the reset        *)
(* instant at the first element of old, old + 1 month, old + 2 months, ...  *)
(* (each step by addOneMonth, starting from the current time when the row   *)
(* has no date) that is strictly after the current time; a row whose reset  *)
(* is not due is left as it is.                                             *)
C34_RolloverReachesFirstFutureBoundary ==
    [][now' = now =>
         \A u \in DOMAIN users :
           LET old == users[u].nextQuotaResetDate
           IN  IF old = NullDate \/ getTime(old) <= getTime(now)
               THEN /\ users'[u].monthlyUsage = 0
                    /\ FirstAfter(IF old = NullDate THEN now ELSE old, now,
                                  users'[u].nextQuotaResetDate)
               ELSE users'[u] = users[u]]_vars

\* registered on Jan 31 2024 and away until the morning of Apr 29: the
\* boundaries of Feb 29 and Mar 29 were missed, the usage is 0 and the next
\* reset is that evening
C34_Witness ==
    /\ users["u1"].createdAt = Date(2024, 0, 31, 1)
    /\ now = Date(2024, 3, 29, 0)
    /\ users["u1"].nextQuotaResetDate = Date(2024, 3, 29, 1)
    /\ users["u1"].monthlyUsage = 0

-----------------------------------------------------------------------------
(* The cycle boundary and the day of registration                          *)

\* months since year 0 of the month d falls in
MonthIndex(d) == d.year * 12 + d.month

\* d is the instant anchor advanced by a whole number of calendar months: the
\* same time of day, on the anchor's day of the month where the month has
\* that day and on the month's last day where it has not
WholeMonthsAfter(anchor, d) ==
    /\ MonthIndex(d) >= MonthIndex(anchor)
    /\ d.tod = anchor.tod
    /\ d.day = Min(anchor.day, daysInMonth(d.year, d.month))

(* C35: after any number of rollovers the reset instant of a user is the    *)
(* first reset instant (the one registration stored) advanced by a whole    *)
(* number of calendar months, on the day of the month of that first         *)
(* instant whenever the month has that day: a clamp in a short month does   *)
(* not shift the later boundaries.                                          *)
C35_BoundaryAnchoredToRegistration ==
    \A u \in DOMAIN users :
      users[u].nextQuotaResetDate # NullDate =>
        WholeMonthsAfter(addOneMonth(users[u].createdAt), users[u].nextQuotaResetDate)

-----------------------------------------------------------------------------
(* Conservation of usage within a cycle                                    *)

\* an instant at lies in the cycle that ends at end: before the end, and by
\* less than a month
InCycle(at, end) ==
    /\ getTime(at) < getTime(end)
    /\ getTime(addOneMonth(at)) >= getTime(end)

\* the File rows in S of user u created in the cycle that ends at end
CycleFiles(S, u, end) ==
    {f \in S : f.userId = u /\ end # NullDate /\ InCycle(f.uploadedAt, end)}

\* the request of task t has returned from uploadFile or deleteFile, and no
\* step of it found a rollover due
CompletedInCycle(tr) ==
    /\ tr.fop \in {"upload", "delete"} /\ tr.fpc = "done"
    /\ tr.fres \in {"ok", "true"}
    /\ "resetDate" \notin tr.eff

\* the step that completes an upload or a delete adds the request's delta to
\* the total of the user's entries of today, which are one row
DailyEntryFollows ==
    \A t \in OneTask :
       (task[t].fpc = "record" /\ CompletedInCycle(task'[t])) =>
          LET u == task[t].user
              delta == IF task[t].fop = "upload" THEN task[t].rec.size
                       ELSE 0 - task[t].rec.size
          IN  /\ SumBytes(RowsOn(history', u, now)) =
                   SumBytes(RowsOn(history, u, now)) + delta
              /\ Cardinality(RowsOn(history', u, now)) = 1
              /\ history' \ RowsOn(history', u, now) = history \ RowsOn(history, u, now)

\* after a completed upload or delete in the course of which no rollover
\* occurred, the usage is the total size of the user's rows of the cycle
UsageIsCycleTotal ==
    \A t \in OneTask :
       (/\ CompletedInCycle(task[t])
        /\ ~ResetDue(users[task[t].user].nextQuotaResetDate, now)) =>
          users[task[t].user].monthlyUsage =
             SumSizes(CycleFiles(files, task[t].user,
                                 users[task[t].user].nextQuotaResetDate))

(* C36 as stated: within one quota cycle, with the requests of a user one   *)
(* at a time, after every completed upload or delete the user's usage       *)
(* equals the sum of the sizes of the user's existing File rows created in  *)
(* that cycle, and today's daily entry is the net sum of the deltas         *)
(* recorded today.                                                          *)
C36_UsageConserved == []UsageIsCycleTotal /\ [][DailyEntryFollows]_vars

\* in the first cycle, between requests, the usage of every user is the total
\* size of the user's rows
FirstCycleConserved ==
    (now = Instants[1] /\ AllDone) =>
       \A u \in DOMAIN users :
          users[u].monthlyUsage = SumSizes({f \in files : f.userId = u})

\* a completed upload or delete without a rollover moves the usage as it
\* moves the total of the cycle's rows, except that the delete of a row from
\* an earlier cycle takes the row's size off the usage alone
ConservedStep ==
    \A t \in OneTask :
       (task[t].fpc = "record" /\ CompletedInCycle(task'[t])) =>
          LET u == task[t].user
              rec == task[t].rec
              end == users[u].nextQuotaResetDate
              before == IF task[t].fop = "upload" THEN files' \ {rec}
                        ELSE files' \cup {rec}
              gapBefore == users[u].monthlyUsage - SumSizes(CycleFiles(before, u, end))
              gapAfter == users'[u].monthlyUsage - SumSizes(CycleFiles(files', u, end))
          IN  /\ users'[u].nextQuotaResetDate = end
              /\ task[t].fop = "upload" => rec \in files' /\ InCycle(rec.uploadedAt, end)
              /\ task[t].fop = "delete" => rec \notin files'
              /\ gapAfter = gapBefore -
                   (IF task[t].fop = "delete" /\ ~InCycle(rec.uploadedAt, end)
                    THEN rec.size ELSE 0)

(* C36, amended: within one quota cycle, with the requests of a user one at *)
(* a time, every completed upload or delete of a File row created in that  *)
(* cycle changes the usage by what it changes the sum of the sizes of the   *)
(* user's rows created in that cycle, so the two are equal as long as no    *)
(* row created in an earlier cycle has been deleted (as in the first        *)
(* cycle); the delete of a row created in an earlier cycle lowers the usage *)
(* by the row's size and leaves that sum as it was.  Today's daily entry    *)
(* changes by the delta of every completed request.                         *)
C36_UsageConservedExceptEarlierRows ==
    /\ []FirstCycleConserved
    /\ [][ConservedStep /\ DailyEntryFollows]_vars

\* a row uploaded before the rollover was deleted after it, by a request that
\* did not roll over: the usage is below the total of the cycle's rows
C36_Witness ==
    \E t \in OneTask :
      /\ CompletedInCycle(task[t]) /\ task[t].fop = "delete"
      /\ now = Instants[2]
      /\ task[t].rec.uploadedAt = Instants[1] /\ task[t].rec.size > 0
      /\ \E f \in files : f.userId = task[t].user /\ f.uploadedAt = Instants[2]
      /\ users[task[t].user].monthlyUsage =
           SumSizes(CycleFiles(files, task[t].user,
                               users[task[t].user].nextQuotaResetDate))
             - task[t].rec.size

-----------------------------------------------------------------------------
-----------------------------------------------------------------------------
\* an upload has ended after its put succeeded and without its File row
CatalogWriteFailed(tr) ==
    /\ tr.fop = "upload" /\ tr.fpc = "done"
    /\ tr.sres.kind = "ok" /\ "file.create" \notin tr.eff

\* what is left of such an upload apart from the user's row: the error, no
\* File row, no daily entry, and one object, at the provider that took the bytes
OnlyOrphanLeft(tr) ==
    /\ tr.fres = "DbError"
    /\ ~\E f \in files : f.id = tr.fid \/ f.cloudPath = tr.sres.key
    /\ tr.eff \cap {"file.create", "usage.increment", "history"} = {}
    /\ tr.sres.provider \in ProviderNames
    /\ tr.sres.key \in objects[tr.sres.provider]
    /\ \A p \in ProviderNames \ {tr.sres.provider} : tr.sres.key \notin objects[p]

(* C39 as stated: when the catalog write fails after a successful put,      *)
(* uploadFile ends with that error, no File row exists for the upload, the  *)
(* request has changed neither the usage nor any daily entry, and the only  *)
(* thing left is the object at the provider that accepted the bytes.        *)
C39_CatalogFailureLeavesOnlyOrphan ==
    \A t \in OneTask :
      CatalogWriteFailed(task[t]) =>
        /\ OnlyOrphanLeft(task[t])
        /\ "usage.reset" \notin task[t].eff

(* C39, amended: when the catalog write fails after a successful put,       *)
(* uploadFile ends with that error, no File row exists for the upload, the  *)
(* file's size is not added to the usage and no daily entry is written, and *)
(* what is left is the object at the provider that accepted the bytes,      *)
(* together with the rollover (usage set to 0, reset instant advanced) that *)
(* the capacity check made before the put when one was due.                 *)
C39_CatalogFailureLeavesOrphanAndRollover ==
    \A t \in OneTask :
      CatalogWriteFailed(task[t]) =>
        /\ OnlyOrphanLeft(task[t])
        /\ task[t].eff \subseteq {"resetDate", "usage.reset"}

\* the catalog write failed for an upload that gcp had taken after aws was
\* unavailable; the capacity check before it had reset a non-zero usage
C39_Witness ==
    \E t \in OneTask :
      /\ CatalogWriteFailed(task[t]) /\ task[t].fres = "DbError"
      /\ task[t].sres.provider = "gcp"
      /\ task[t].sres.key \in objects["gcp"]
      /\ "usage.reset" \in task[t].eff
      /\ users[task[t].user].monthlyUsage = 0

-----------------------------------------------------------------------------
\* the requests that hold the row of file id 1 from their lookup
Holders == {t \in TwoTasks : task[t].fop = "delete" /\ task[t].rec.id = 1}

(* C38: two deleteFile requests of the owner for the same file id, their    *)
(* lookups, storage deletes, catalog deletes and usage updates interleaved  *)
(* in any order, take the file's size off the owner's usage at most once:   *)
(* the ledger never records more bytes deleted than were uploaded, and a    *)
(* usage update is made only by the request whose catalog delete removed    *)
(* the row.                                                                 *)
C38_DecrementAtMostOnce ==
    /\ \A u \in DOMAIN users : SumBytes(EntriesOf(history, u)) >= 0
    /\ now = Instants[1] => \A u \in DOMAIN users : users[u].monthlyUsage >= 0
    /\ Cardinality({t \in Holders : "file.delete" \in task[t].eff}) <= 1
    /\ \A t \in Holders : "usage.increment" \in task[t].eff => "file.delete" \in task[t].eff

\* both requests found the row and had the object deleted; one removed the row
\* and took the size off, the other's catalog delete was rejected
C38_Witness ==
    /\ Holders = TwoTasks
    /\ \A t \in TwoTasks : task[t].fpc = "done" /\ task[t].sres.kind = "ok"
    /\ \E t \in TwoTasks : task[t].fres = "true" /\ "usage.increment" \in task[t].eff
    /\ \E t \in TwoTasks : task[t].fres = "DbError" /\ task[t].eff = {}
    /\ files = {} /\ now = Instants[1]
    /\ users["u1"].monthlyUsage = 0

=============================================================================
